---- MODULE Spec2Model ----
(***************************************************************************)
(* Context locals of werkzeug (src/src/werkzeug/local.py): Local,          *)
(* LocalStack, LocalManager and LocalProxy, as a state machine.            *)
(*                                                                         *)
(* A Local keeps a table  ident -> (name -> value)  in __storage__ and     *)
(* keys every access by __ident_func__() of the running context.  The      *)
(* contexts of the model are threads (or greenlets); each runs its         *)
(* operations one after the other, and the contexts interleave.            *)
(***************************************************************************)
EXTENDS Integers, Sequences, FiniteSets, TLC

(***************************************************************************)
(* Bounds of the model.                                                    *)
(***************************************************************************)
NumCtx == 2

MaxDepth == 3

\* the depth of the stacks in the specifications of the manager and of the proxies
MgrDepth == 2

\* the depth of the stacks where the Local and the stack run side by side
SharedDepth == 1

\* the most items of a response body
MaxBody == 1

\* the largest number an in-place addition brings a counter to
MaxCount == 2

\* the most members that manager.locals comes to hold
MaxLocals == 2

\* the Locals that hold entries, or that a call runs on, at a time, where
\* the calls run in steps while the identity functions are replaced
MaxInUse == 1

Ctx == 1..NumCtx

(***************************************************************************)
(* Python values.  None, opaque objects and lists are kept apart by a tag, *)
(* so that  rv is None  is a test the model can make.                      *)
(***************************************************************************)
None == [t |-> "None"]

Obj(x) == [t |-> "obj", id |-> x]

List(s) == [t |-> "list", items |-> s]

IsNone(v) == v.t = "None"

Num(n) == [t |-> "int", n |-> n]

\* values assigned to attributes of the Local, and values pushed on the stack
AttrVals == {Obj("a"), Obj("b")}

StackVals == {None, Obj("a")}

Names == {"x", "y"}

\* the objects that hold a number which an in-place operator changes
Mutable == {"a"}

\* the outcome of a call: a returned value, or a raised exception
Ret(v) == [exc |-> "none", val |-> v]

Raise(e, m) == [exc |-> e, msg |-> m]

(***************************************************************************)
(* The objects: the Local "A", and the LocalStack whose _local is the      *)
(* Local "S".                                                              *)
(***************************************************************************)
Locals == {"A", "S"}

VARIABLES
    storage,    \* storage[l]: __storage__ of Local l, ident -> (name -> value)
    identFunc,  \* identFunc[l]: the __ident_func__ slot of Local l
    locals,     \* LocalManager.locals
    mgrIdent,   \* LocalManager.ident_func
    pc,         \* pc[c]: where context c is inside Local.__setattr__
    last,       \* the call that returned last: who, what, its result
    own,        \* history: own[l] maps a context to what it bound in l
    wrap,       \* wrap[c]: the ClosingIterator that application() returned to c
    heap,       \* heap[x]: the instance attributes of the mutable object Obj(x)
    detached,   \* the lists that a call still holds and the table no longer
    given       \* history: how many members, from the first, the constructor
                \* of the manager gave its identity function to

vars ==
    <<storage, identFunc, locals, mgrIdent, pc, last, own, wrap, heap, detached,
      given>>

(***************************************************************************)
(* Identity functions.  get_ident names the running thread; the function   *)
(* given to a LocalManager is any other naming of the contexts.            *)
(***************************************************************************)
GetIdent(c) == c

CustomIdent(c) == NumCtx + 1 - c

CallIdentFunc(f, c) == IF f = "get_ident" THEN GetIdent(c) ELSE CustomIdent(c)

\* self.__ident_func__() of Local l, called by context c
IdentAtConstruction(l, c) == CallIdentFunc(identFunc[l], 1)

Ident(l, c) == CallIdentFunc(identFunc[l], c)

(***************************************************************************)
(* Local: operators on one __storage__ table st.                           *)
(***************************************************************************)
\* self.__storage__[ident][name], KeyError turned into AttributeError
Getattr(st, id, name) ==
    IF id \in DOMAIN st /\ name \in DOMAIN st[id]
    THEN Ret(st[id][name])
    ELSE Raise("AttributeError", name)

\* try: storage[ident][name] = value
SetattrTry(st, id, name, value) ==
    IF id \in DOMAIN st
    THEN [exc |-> "none", st |-> [st EXCEPT ![id] = (name :> value) @@ @]]
    ELSE [exc |-> "KeyError", st |-> st]

\* except KeyError: storage[ident] = {name: value}
SetattrExceptRebuild(st, id, name, value) ==
    (id :> (name :> value))

SetattrExcept(st, id, name, value) ==
    (id :> (name :> value)) @@ st

\* the whole of __setattr__
Setattr(st, id, name, value) ==
    LET t == SetattrTry(st, id, name, value)
    IN  IF t.exc = "KeyError" THEN SetattrExcept(st, id, name, value) ELSE t.st

\* del self.__storage__[ident][name], KeyError turned into AttributeError
DelattrRelease(st, id, name) ==
    IF id \in DOMAIN st /\ name \in DOMAIN st[id]
    THEN [res |-> Ret(None),
          st |-> IF DOMAIN st[id] = {name}
                 THEN [k \in DOMAIN st \ {id} |-> st[k]]
                 ELSE [st EXCEPT ![id] = [n \in DOMAIN @ \ {name} |-> @[n]]]]
    ELSE [res |-> Raise("AttributeError", name), st |-> st]

Delattr(st, id, name) ==
    IF id \in DOMAIN st /\ name \in DOMAIN st[id]
    THEN [res |-> Ret(None),
          st |-> [st EXCEPT ![id] = [n \in DOMAIN @ \ {name} |-> @[n]]]]
    ELSE [res |-> Raise("AttributeError", name), st |-> st]

\* self.__storage__.pop(ident, None)
ReleaseLocalAll(st, id) ==
    [res |-> Ret(None), had |-> id \in DOMAIN st, st |-> [k \in {} |-> k]]

ReleaseLocalDel(st, id) ==
    IF id \in DOMAIN st
    THEN [res |-> Ret(None), had |-> TRUE,
          st |-> [k \in DOMAIN st \ {id} |-> st[k]]]
    ELSE [res |-> Raise("KeyError", "ident"), had |-> FALSE, st |-> st]

\* had: whether pop found the key, or returned its default
ReleaseLocal(st, id) ==
    [res |-> Ret(None), had |-> id \in DOMAIN st,
     st |-> [k \in DOMAIN st \ {id} |-> st[k]]]

\* Local.__iter__: iter(self.__storage__.items())
Iter(st) == {<<k, st[k]>> : k \in DOMAIN st}

(***************************************************************************)
(* LocalStack: operators on the __storage__ table st of its _local, for    *)
(* the identity id of the calling context.                                 *)
(***************************************************************************)
\* getattr(self._local, "stack", None)
GetStack(st, id) ==
    LET r == Getattr(st, id, "stack")
    IN  IF r.exc = "AttributeError" THEN None ELSE r.val

\* LocalStack.push(obj)
Push(st, id, obj) ==
    LET rv0 == GetStack(st, id)
        st1 == IF IsNone(rv0) THEN Setattr(st, id, "stack", List(<<>>)) ELSE st
        rv1 == IF IsNone(rv0) THEN List(<<>>) ELSE rv0
        rv  == List(Append(rv1.items, obj))
    IN  [res |-> Ret(rv), st |-> [st1 EXCEPT ![id]["stack"] = rv]]

\* LocalStack.pop()
PopNoRelease(st, id) ==
    LET stack == GetStack(st, id)
    IN  IF IsNone(stack) THEN [res |-> Ret(None), st |-> st]
        ELSE IF Len(stack.items) = 0
        THEN [res |-> Raise("IndexError", "pop from empty list"), st |-> st]
        ELSE [res |-> Ret(stack.items[Len(stack.items)]),
              st |-> [st EXCEPT ![id]["stack"] =
                        List(SubSeq(stack.items, 1, Len(stack.items) - 1))]]

PopEmptyRaises(st, id) ==
    LET stack == GetStack(st, id)
    IN  IF IsNone(stack)
        THEN [res |-> Raise("IndexError", "pop from empty list"), st |-> st]
        ELSE IF Len(stack.items) = 1
        THEN [res |-> Ret(stack.items[Len(stack.items)]),
              st |-> ReleaseLocal(st, id).st]
        ELSE [res |-> Ret(stack.items[Len(stack.items)]),
              st |-> [st EXCEPT ![id]["stack"] =
                        List(SubSeq(stack.items, 1, Len(stack.items) - 1))]]

Pop(st, id) ==
    LET stack == GetStack(st, id)
    IN  IF IsNone(stack) THEN [res |-> Ret(None), st |-> st]
        ELSE IF Len(stack.items) = 1
        THEN [res |-> Ret(stack.items[Len(stack.items)]),
              st |-> ReleaseLocal(st, id).st]
        ELSE IF Len(stack.items) = 0
        THEN [res |-> Raise("IndexError", "pop from empty list"), st |-> st]
        ELSE [res |-> Ret(stack.items[Len(stack.items)]),
              st |-> [st EXCEPT ![id]["stack"] =
                        List(SubSeq(stack.items, 1, Len(stack.items) - 1))]]

\* LocalStack.top
TopFirst(st, id) ==
    LET r == Getattr(st, id, "stack")
    IN  IF r.exc = "AttributeError" \/ Len(r.val.items) = 0 THEN None
        ELSE r.val.items[1]

Top(st, id) ==
    LET r == Getattr(st, id, "stack")
    IN  IF r.exc = "AttributeError" THEN None
        ELSE IF Len(r.val.items) = 0 THEN None
        ELSE r.val.items[Len(r.val.items)]

(***************************************************************************)
(* History: what each context bound, told in the words of the contexts     *)
(* and not of the table: own[l] is a function from the contexts that have  *)
(* bound something in l to their name -> value mapping.  It is kept by the *)
(* calls of the specifications in which the identity function of a Local   *)
(* stays what it is.                                                       *)
(***************************************************************************)
Empty == [k \in {} |-> k]

OwnSet(o, c, name, value) ==
    IF c \in DOMAIN o THEN [o EXCEPT ![c] = (name :> value) @@ @]
    ELSE (c :> (name :> value)) @@ o

OwnDel(o, c, name) ==
    IF c \in DOMAIN o /\ name \in DOMAIN o[c]
    THEN [o EXCEPT ![c] = [n \in DOMAIN @ \ {name} |-> @[n]]]
    ELSE o

OwnRelease(o, c) == [k \in DOMAIN o \ {c} |-> o[k]]

\* the stack a context built, bottom first
OwnStack(o, c) == IF c \in DOMAIN o THEN o[c]["stack"].items ELSE <<>>

OwnPush(o, c, obj) == OwnSet(o, c, "stack", List(Append(OwnStack(o, c), obj)))

OwnPop(o, c) ==
    IF Len(OwnStack(o, c)) <= 1 THEN OwnRelease(o, c)
    ELSE OwnSet(o, c, "stack",
                List(SubSeq(OwnStack(o, c), 1, Len(OwnStack(o, c)) - 1)))

Idle == [op |-> "idle"]

\* a call that has not called the identity function, or has used what it gave
NoIdent == 0

\* the instance attributes of a counter after its __init__
InitAttrs == "n" :> Num(0)

\* no response body has been wrapped for the context yet
NoWrap == [st |-> "none"]

(***************************************************************************)
(* LocalManager.__init__(locals, ident_func): the members given to the     *)
(* constructor take the manager's identity function when one is given,     *)
(* whatever function they held; idf is the __ident_func__ slot of every    *)
(* Local before the call.  The result is the new manager and the slots.    *)
(***************************************************************************)
Members(ls) == {ls[i] : i \in DOMAIN ls}

\* Local.__init__: the __ident_func__ slot of a new Local
NewIdentFunc == [l \in Locals |-> "get_ident"]

ManagerInit(idf, ls, f) ==
    [locals     |-> ls,
     ident_func |-> IF f # "None" THEN f ELSE "get_ident",
     identFunc  |-> [l \in Locals |->
                       IF f # "None" /\ l \in Members(ls) THEN f ELSE idf[l]]]

InitWith(LS) ==
    /\ \E ls \in LS, f \in {"None", "custom"} :
          LET m == ManagerInit(NewIdentFunc, ls, f)
          IN  /\ locals = m.locals
              /\ mgrIdent = m.ident_func
              /\ identFunc = m.identFunc
              /\ given = IF f # "None" THEN Len(ls) ELSE 0
    /\ storage = [l \in Locals |-> Empty]
    /\ own = [l \in Locals |-> Empty]
    /\ pc = [c \in Ctx |-> Idle]
    /\ last = [ctx |-> 0, op |-> "init"]
    /\ wrap = [c \in Ctx |-> NoWrap]
    /\ heap = [x \in Mutable |-> InitAttrs]
    /\ detached = Empty

Init == InitWith({<<"A", "S">>})

(***************************************************************************)
(* Local.__setattr__ on A, in its steps: the call evaluates the identity,  *)
(* the try block looks the entry up and writes the name, the except block  *)
(* creates the entry.                                                      *)
(***************************************************************************)
SetattrCall(c, name, value) ==
    /\ pc[c] = Idle
    /\ pc' = [pc EXCEPT ![c] = [op |-> "setattr", phase |-> "try", name |-> name,
                                 value |-> value, ident |-> Ident("A", c)]]
    /\ UNCHANGED <<storage, identFunc, locals, mgrIdent, last, own, wrap, heap, detached, given>>

SetattrDone(c) ==
    /\ last' = [ctx |-> c, op |-> "setattr", l |-> "A", name |-> pc[c].name,
                arg |-> pc[c].value, res |-> Ret(None)]
    /\ own' = [own EXCEPT !["A"] = OwnSet(@, c, pc[c].name, pc[c].value)]
    /\ pc' = [pc EXCEPT ![c] = Idle]

SetattrTryStep(c) ==
    /\ pc[c].op = "setattr" /\ pc[c].phase = "try"
    /\ LET t == SetattrTry(storage["A"], pc[c].ident, pc[c].name, pc[c].value)
       IN  IF t.exc = "KeyError"
           THEN /\ pc' = [pc EXCEPT ![c].phase = "except"]
                /\ UNCHANGED <<storage, last, own, given>>
           ELSE /\ storage' = [storage EXCEPT !["A"] = t.st]
                /\ SetattrDone(c)
    /\ UNCHANGED <<identFunc, locals, mgrIdent, wrap, heap, detached, given>>

SetattrExceptStep(c) ==
    /\ pc[c].op = "setattr" /\ pc[c].phase = "except"
    /\ storage' = [storage EXCEPT !["A"] =
                     SetattrExcept(@, pc[c].ident, pc[c].name, pc[c].value)]
    /\ SetattrDone(c)
    /\ UNCHANGED <<identFunc, locals, mgrIdent, wrap, heap, detached, given>>

\* Local.__getattr__ on A
GetattrCall(c, name) ==
    /\ pc[c] = Idle
    /\ last' = [ctx |-> c, op |-> "getattr", l |-> "A", name |-> name,
                res |-> Getattr(storage["A"], Ident("A", c), name)]
    /\ UNCHANGED <<storage, identFunc, locals, mgrIdent, pc, own, wrap, heap, detached, given>>

\* Local.__delattr__ on A
DelattrCall(c, name) ==
    /\ pc[c] = Idle
    /\ LET d == Delattr(storage["A"], Ident("A", c), name)
       IN  /\ storage' = [storage EXCEPT !["A"] = d.st]
           /\ last' = [ctx |-> c, op |-> "delattr", l |-> "A", name |-> name,
                       res |-> d.res]
    /\ own' = [own EXCEPT !["A"] = OwnDel(@, c, name)]
    /\ UNCHANGED <<identFunc, locals, mgrIdent, pc, wrap, heap, detached, given>>

\* release_local(l): l.__release_local__(), for the Local and for the stack
ReleaseCall(c, l) ==
    /\ pc[c] = Idle
    /\ LET r == ReleaseLocal(storage[l], Ident(l, c))
       IN  /\ storage' = [storage EXCEPT ![l] = r.st]
           /\ last' = [ctx |-> c, op |-> "release", l |-> l, res |-> r.res,
                       had |-> r.had]
    /\ own' = [own EXCEPT ![l] = OwnRelease(@, c)]
    /\ UNCHANGED <<identFunc, locals, mgrIdent, pc, wrap, heap, detached, given>>

Next ==
    \/ \E c \in Ctx, n \in Names, v \in AttrVals : SetattrCall(c, n, v)
    \/ \E c \in Ctx : SetattrTryStep(c)
    \/ \E c \in Ctx : SetattrExceptStep(c)
    \/ \E c \in Ctx, n \in Names : GetattrCall(c, n)
    \/ \E c \in Ctx, n \in Names : DelattrCall(c, n)
    \/ \E c \in Ctx : ReleaseCall(c, "A")

Spec == Init /\ [][Next]_vars

(***************************************************************************)
(* The calls on the LocalStack.                                            *)
(***************************************************************************)
\* the stack of context c as the table holds it, bottom first
StackOf(c) ==
    LET v == GetStack(storage["S"], Ident("S", c))
    IN  IF IsNone(v) THEN <<>> ELSE v.items

\* lines 130-134.  A push of a context that has a list appends to it and
\* returns.  A push of a context that has none stores the empty list (line
\* 132) and stands before the append (line 133): the table holds the empty
\* list until PushFill.
PushCall(c, obj) ==
    /\ pc[c] = Idle
    /\ IF IsNone(GetStack(storage["S"], Ident("S", c)))
       THEN /\ storage' = [storage EXCEPT !["S"] =
                             Setattr(@, Ident("S", c), "stack", List(<<>>))]
            /\ own' = [own EXCEPT !["S"] = OwnSet(@, c, "stack", List(<<>>))]
            /\ pc' = [pc EXCEPT ![c] = [op |-> "push", phase |-> "fill",
                                        value |-> obj]]
            /\ last' = last
       ELSE LET p == Push(storage["S"], Ident("S", c), obj)
            IN  /\ storage' = [storage EXCEPT !["S"] = p.st]
                /\ last' = [ctx |-> c, op |-> "push", l |-> "S",
                            arg |-> obj, res |-> p.res]
                /\ own' = [own EXCEPT !["S"] = OwnPush(@, c, obj)]
                /\ pc' = pc
    /\ UNCHANGED <<identFunc, locals, mgrIdent, wrap, heap, detached, given>>

\* lines 133-134 of a push that has stored its new list
PushFill(c) ==
    /\ pc[c].op = "push" /\ pc[c].phase = "fill"
    /\ LET p == Push(storage["S"], Ident("S", c), pc[c].value)
       IN  /\ storage' = [storage EXCEPT !["S"] = p.st]
           /\ last' = [ctx |-> c, op |-> "push", l |-> "S",
                       arg |-> pc[c].value, res |-> p.res]
    /\ own' = [own EXCEPT !["S"] = OwnPush(@, c, pc[c].value)]
    /\ pc' = [pc EXCEPT ![c] = Idle]
    /\ UNCHANGED <<identFunc, locals, mgrIdent, wrap, heap, detached, given>>

\* the push of value obj by context c returns in this step
PushReturns(c, obj) ==
    \/ PushCall(c, obj) /\ pc'[c] = Idle
    \/ PushFill(c) /\ pc[c].value = obj

PopCall(c) ==
    /\ pc[c] = Idle
    /\ LET p == Pop(storage["S"], Ident("S", c))
       IN  /\ storage' = [storage EXCEPT !["S"] = p.st]
           /\ last' = [ctx |-> c, op |-> "pop", l |-> "S", res |-> p.res]
    /\ own' = [own EXCEPT !["S"] = OwnPop(@, c)]
    /\ UNCHANGED <<identFunc, locals, mgrIdent, pc, wrap, heap, detached, given>>

TopCall(c) ==
    /\ pc[c] = Idle
    /\ last' = [ctx |-> c, op |-> "top", l |-> "S",
                res |-> Ret(Top(storage["S"], Ident("S", c)))]
    /\ UNCHANGED <<storage, identFunc, locals, mgrIdent, pc, own, wrap, heap, detached, given>>

NextStack ==
    \/ \E c \in Ctx, v \in StackVals :
         Len(StackOf(c)) < MaxDepth /\ PushCall(c, v)
    \/ \E c \in Ctx : PushFill(c)
    \/ \E c \in Ctx : PopCall(c)
    \/ \E c \in Ctx : TopCall(c)
    \/ \E c \in Ctx : ReleaseCall(c, "S")

SpecStack == Init /\ [][NextStack]_vars

(***************************************************************************)
(* LocalProxy.  A proxy is made from a Local and a name (A("x")), from a   *)
(* LocalStack (S(), whose resolver is _lookup), or from any function, here *)
(* lambda: A.x.                                                            *)
(***************************************************************************)
AttrProxy(name) == [kind |-> "attr", name |-> name]

StackProxy == [kind |-> "stack"]

FuncProxy(name) == [kind |-> "func", name |-> name]

\* LocalStack.__call__._lookup
Lookup(st, id) ==
    LET rv == Top(st, id)
    IN  IF IsNone(rv) THEN Raise("RuntimeError", "object unbound") ELSE Ret(rv)

\* LocalProxy._get_current_object, called by context c with the tables stg
GetCurrentObjectAtConstruction(stg, h, c) ==
    IF h.kind = "attr"
    THEN Raise("RuntimeError", "no object bound to " \o h.name)
    ELSE IF h.kind = "stack" THEN Raise("RuntimeError", "object unbound")
    ELSE Raise("AttributeError", h.name)

GetCurrentObjectUntranslated(stg, h, c) ==
    IF h.kind = "stack" THEN Lookup(stg["S"], Ident("S", c))
    ELSE Getattr(stg["A"], Ident("A", c), h.name)

GetCurrentObject(stg, h, c) ==
    IF h.kind = "stack" THEN Lookup(stg["S"], Ident("S", c))
    ELSE IF h.kind = "func" THEN Getattr(stg["A"], Ident("A", c), h.name)
    ELSE LET r == Getattr(stg["A"], Ident("A", c), h.name)
         IN  IF r.exc = "AttributeError"
             THEN Raise("RuntimeError", "no object bound to " \o h.name)
             ELSE r

(***************************************************************************)
(* The operations a LocalProxy forwards.  The objects they reach are of    *)
(* two classes.  Obj("a") is a counter, a mutable numeric-like container   *)
(* whose instance attributes are heap["a"]:                                *)
(*                                                                         *)
(*   class Counter:                                                        *)
(*       def __init__(self): self.n = 0                                    *)
(*       def __add__(self, k):                                             *)
(*           if not isinstance(k, int): return NotImplemented              *)
(*           return self.n + k                                             *)
(*       def __radd__(self, k):                                            *)
(*           if not isinstance(k, int): return NotImplemented              *)
(*           return k + self.n                                             *)
(*       def __iadd__(self, k):                                            *)
(*           if not isinstance(k, int): return NotImplemented              *)
(*           self.n += k                                                   *)
(*           return self                                                   *)
(*                                                                         *)
(* Obj("b") is object(): no attribute of its own, none can be set, and no  *)
(* operator.  The other operands are an int, None, which has no operator,  *)
(* and Wild, an object whose __add__ takes any right operand and returns   *)
(* "wild".  An operator gives Ret(NotImplemented) where it declines.       *)
(***************************************************************************)
Bool(b) == [t |-> "bool", b |-> b]

Str(s) == [t |-> "str", s |-> s]

Wild == [t |-> "wild"]

NotImplemented == [t |-> "NotImplemented"]

\* the proxy itself, as a value
Handle(h) == [t |-> "proxy", h |-> h]

\* the name and the value of setattr(obj, name, value)
Assign(name, value) == [t |-> "assign", name |-> name, val |-> value]

IsCounter(v) == v.t = "obj" /\ v.id \in Mutable

\* repr(obj) and str(obj) of the two classes
ReprOf(v) == "<" \o v.id \o ">"

\* getattr(obj, name): the instance attributes of the counter; object() has
\* none
ObjGetattr(hp, v, name) ==
    IF IsCounter(v) /\ name \in DOMAIN hp[v.id] THEN Ret(hp[v.id][name])
    ELSE Raise("AttributeError", "object has no attribute " \o name)

\* setattr(obj, name, value): hp is the heap afterwards
ObjSetattr(hp, v, name, value) ==
    IF IsCounter(v)
    THEN [res |-> Ret(None),
          hp |-> [hp EXCEPT ![v.id] = (name :> value) @@ @]]
    ELSE [res |-> Raise("AttributeError", "object has no attribute " \o name),
          hp |-> hp]

\* delattr(obj, name)
ObjDelattr(hp, v, name) ==
    IF IsCounter(v) /\ name \in DOMAIN hp[v.id]
    THEN [res |-> Ret(None),
          hp |-> [hp EXCEPT ![v.id] = [k \in DOMAIN @ \ {name} |-> @[k]]]]
    ELSE [res |-> Raise("AttributeError", "object has no attribute " \o name),
          hp |-> hp]

\* x.__add__(y); it declines also where the class has no __add__
LeftAdd(hp, x, y) ==
    IF x.t = "wild" THEN Ret(Str("wild"))
    ELSE IF x.t = "int" /\ y.t = "int" THEN Ret(Num(x.n + y.n))
    ELSE IF IsCounter(x) /\ y.t = "int"
    THEN LET n == ObjGetattr(hp, x, "n")
         IN  IF n.exc # "none" THEN n ELSE Ret(Num(n.val.n + y.n))
    ELSE Ret(NotImplemented)

\* getattr(co, "__radd__", None) is not None
HasReflected(co) == IsCounter(co) \/ co.t = "int"

\* y.__radd__(x)
ReflectedAdd(hp, y, x) ==
    IF IsCounter(y) /\ x.t = "int"
    THEN LET n == ObjGetattr(hp, y, "n")
         IN  IF n.exc # "none" THEN n ELSE Ret(Num(x.n + n.val.n))
    ELSE IF y.t = "int" /\ x.t = "int" THEN Ret(Num(x.n + y.n))
    ELSE Ret(NotImplemented)

\* operator.add(x, y): x.__add__(y), then y.__radd__(x) where the classes
\* differ, then TypeError
BinaryAdd(hp, x, y) ==
    LET l == LeftAdd(hp, x, y)
        r == IF HasReflected(y) /\ (x.t # y.t \/ (x.t = "obj" /\ x.id # y.id))
             THEN ReflectedAdd(hp, y, x) ELSE Ret(NotImplemented)
    IN  IF l # Ret(NotImplemented) THEN l
        ELSE IF r # Ret(NotImplemented) THEN r
        ELSE Raise("TypeError", "unsupported operand type(s) for +")

\* _r_op(proxy, other, "__radd__", operator.add), co being the resolved object
ROpNoFallback(hp, co, other) ==
    IF HasReflected(co)
    THEN ReflectedAdd(hp, co, other)
    ELSE BinaryAdd(hp, other, co)

ROp(hp, co, other) ==
    IF HasReflected(co)
    THEN LET out == ReflectedAdd(hp, co, other)
         IN  IF out = Ret(NotImplemented) THEN BinaryAdd(hp, other, co) ELSE out
    ELSE BinaryAdd(hp, other, co)

\* operator.iadd(co, other): co.__iadd__(other) where the class has it and
\* it does not decline, else co + other; hp is the heap afterwards
Iadd(hp, co, other) ==
    IF IsCounter(co) /\ other.t = "int"
    THEN LET n == ObjGetattr(hp, co, "n")
         IN  IF n.exc # "none" THEN [res |-> n, hp |-> hp]
             ELSE [res |-> Ret(co),
                   hp |-> [hp EXCEPT ![co.id]["n"] = Num(n.val.n + other.n)]]
    ELSE LET b == BinaryAdd(hp, co, other)
         IN  [res |-> IF b.exc = "none" THEN b
                      ELSE Raise("TypeError", "unsupported operand type(s) for +="),
              hp |-> hp]

\* bool(obj): None is false, the objects of the two classes are true
ObjBool(v) == Bool(~IsNone(v))

(***************************************************************************)
(* The methods of LocalProxy.  r is what self._get_current_object() gave;  *)
(* an exception that the method does not catch is its outcome.             *)
(***************************************************************************)
\* LocalProxy.__bool__
BoolOpPropagate(r) ==
    IF r.exc # "none" THEN r ELSE Ret(ObjBool(r.val))

BoolOp(r) ==
    IF r.exc = "RuntimeError" THEN Ret(Bool(FALSE))
    ELSE IF r.exc # "none" THEN r
    ELSE Ret(ObjBool(r.val))

\* LocalProxy.__repr__
ReprOp(r) ==
    IF r.exc = "RuntimeError" THEN Ret(Str("<LocalProxy unbound>"))
    ELSE IF r.exc # "none" THEN r
    ELSE Ret(Str(ReprOf(r.val)))

\* LocalProxy.__str__
StrOp(r) == IF r.exc # "none" THEN r ELSE Ret(Str(ReprOf(r.val)))

\* LocalProxy.__getattr__
GetattrOp(hp, r, name) == IF r.exc # "none" THEN r ELSE ObjGetattr(hp, r.val, name)

\* LocalProxy.__eq__: the objects compare by identity
EqOp(r, other) == IF r.exc # "none" THEN r ELSE Ret(Bool(r.val = other))

\* LocalProxy.__call__: no object of the two classes is callable
CallOp(r) ==
    IF r.exc # "none" THEN r ELSE Raise("TypeError", "object is not callable")

\* LocalProxy.__getitem__: no object of the two classes has items
GetitemOp(r, key) ==
    IF r.exc # "none" THEN r ELSE Raise("TypeError", "object is not subscriptable")

\* LocalProxy.__add__
AddOp(hp, r, other) == IF r.exc # "none" THEN r ELSE BinaryAdd(hp, r.val, other)

\* LocalProxy.__radd__
RaddOp(hp, r, other) == IF r.exc # "none" THEN r ELSE ROp(hp, r.val, other)

\* LocalProxy.__iadd__: res is the outcome, hp the heap afterwards
IaddOpReturnsObject(hp, r, h, other) ==
    IF r.exc # "none" THEN [res |-> r, hp |-> hp]
    ELSE Iadd(hp, r.val, other)

IaddOp(hp, r, h, other) ==
    IF r.exc # "none" THEN [res |-> r, hp |-> hp]
    ELSE LET i == Iadd(hp, r.val, other)
         IN  IF i.res.exc # "none" THEN i
             ELSE [res |-> Ret(Handle(h)), hp |-> i.hp]

\* LocalProxy.__setattr__
SetattrOp(hp, r, name, value) ==
    IF r.exc # "none" THEN [res |-> r, hp |-> hp]
    ELSE ObjSetattr(hp, r.val, name, value)

\* LocalProxy.__delattr__
DelattrOp(hp, r, name) ==
    IF r.exc # "none" THEN [res |-> r, hp |-> hp]
    ELSE ObjDelattr(hp, r.val, name)

\* an operation op on proxy h by context c, with its argument
Forward(stg, hp, h, c, op, arg) ==
    LET r == GetCurrentObject(stg, h, c)
    IN  CASE op = "__bool__"    -> [res |-> BoolOp(r), hp |-> hp]
          [] op = "__repr__"    -> [res |-> ReprOp(r), hp |-> hp]
          [] op = "__str__"     -> [res |-> StrOp(r), hp |-> hp]
          [] op = "__getattr__" -> [res |-> GetattrOp(hp, r, arg.s), hp |-> hp]
          [] op = "__eq__"      -> [res |-> EqOp(r, arg), hp |-> hp]
          [] op = "__call__"    -> [res |-> CallOp(r), hp |-> hp]
          [] op = "__getitem__" -> [res |-> GetitemOp(r, arg), hp |-> hp]
          [] op = "__add__"     -> [res |-> AddOp(hp, r, arg), hp |-> hp]
          [] op = "__radd__"    -> [res |-> RaddOp(hp, r, arg), hp |-> hp]
          [] op = "__iadd__"    -> IaddOp(hp, r, h, arg)
          [] op = "__setattr__" -> SetattrOp(hp, r, arg.name, arg.val)
          [] op = "__delattr__" -> DelattrOp(hp, r, arg.s)

(***************************************************************************)
(* LocalManager.                                                           *)
(***************************************************************************)
\* LocalManager.cleanup: for local in self.locals: release_local(local).
\* stg is every table; an exception of a release would end the loop.
RECURSIVE CleanupFrom(_, _, _)
CleanupFrom(stg, i, c) ==
    IF i > Len(locals) THEN [res |-> Ret(None), stg |-> stg]
    ELSE LET l == locals[i]
             r == ReleaseLocal(stg[l], Ident(l, c))
         IN  IF r.res.exc # "none" THEN [res |-> r.res, stg |-> stg]
             ELSE CleanupFrom([stg EXCEPT ![l] = r.st], i + 1, c)

Cleanup(stg, c) == CleanupFrom(stg, 1, c)

RECURSIVE OwnCleanup(_, _, _)
OwnCleanup(o, i, c) ==
    IF i > Len(locals) THEN o
    ELSE OwnCleanup([o EXCEPT ![locals[i]] = OwnRelease(@, c)], i + 1, c)

\* LocalManager.cleanup in its steps.  The frame of the call holds the place
\* of the loop in self.locals (i), the member it is releasing (l) and the
\* identity that the member's function gave (ident); rel is the history of
\* the call, the members released so far and whether each had an entry.
CleanupFrame(phase, i, l, ident, rel) ==
    [op |-> "cleanup", phase |-> phase, i |-> i, l |-> l, ident |-> ident,
     rel |-> rel]

\* cleanup(), line 208: the loop over self.locals begins
CleanupBegin(c) ==
    /\ pc[c] = Idle
    /\ pc' = [pc EXCEPT ![c] = CleanupFrame("next", 1, "", NoIdent, <<>>)]
    /\ UNCHANGED <<storage, identFunc, locals, mgrIdent, last, own, wrap, heap,
                   detached, given>>

\* the loop ends at the first member that had no entry
CleanupNextStopAtEmpty(c) ==
    /\ pc[c].op = "cleanup" /\ pc[c].phase = "next"
    /\ IF \/ pc[c].i > Len(locals)
          \/ pc[c].rel # <<>> /\ ~pc[c].rel[Len(pc[c].rel)].had
       THEN /\ last' = [ctx |-> c, op |-> "cleanup", res |-> Ret(None),
                        rel |-> pc[c].rel]
            /\ pc' = [pc EXCEPT ![c] = Idle]
       ELSE /\ pc' = [pc EXCEPT ![c].phase = "ident",
                                ![c].l = locals[pc[c].i]]
            /\ UNCHANGED last
    /\ UNCHANGED <<storage, identFunc, locals, mgrIdent, own, wrap, heap,
                   detached, given>>

\* line 208: the next member of self.locals as the list is now, or the end
\* of the loop and of the call
CleanupNext(c) ==
    /\ pc[c].op = "cleanup" /\ pc[c].phase = "next"
    /\ IF pc[c].i > Len(locals)
       THEN /\ last' = [ctx |-> c, op |-> "cleanup", res |-> Ret(None),
                        rel |-> pc[c].rel]
            /\ pc' = [pc EXCEPT ![c] = Idle]
       ELSE /\ pc' = [pc EXCEPT ![c].phase = "ident",
                                ![c].l = locals[pc[c].i]]
            /\ UNCHANGED last
    /\ UNCHANGED <<storage, identFunc, locals, mgrIdent, own, wrap, heap,
                   detached, given>>

\* line 209, release_local(local), in line 55: self.__ident_func__()
CleanupIdent(c) ==
    /\ pc[c].op = "cleanup" /\ pc[c].phase = "ident"
    /\ pc' = [pc EXCEPT ![c].phase = "pop", ![c].ident = Ident(pc[c].l, c)]
    /\ UNCHANGED <<storage, identFunc, locals, mgrIdent, last, own, wrap, heap,
                   detached, given>>

\* line 209, in line 55: self.__storage__.pop(ident, None)
CleanupPop(c) ==
    /\ pc[c].op = "cleanup" /\ pc[c].phase = "pop"
    /\ LET r == ReleaseLocal(storage[pc[c].l], pc[c].ident)
       IN  /\ storage' = [storage EXCEPT ![pc[c].l] = r.st]
           /\ pc' = [pc EXCEPT ![c] =
                       CleanupFrame("next", pc[c].i + 1, "", NoIdent,
                                    Append(pc[c].rel,
                                           [l |-> pc[c].l, had |-> r.had]))]
    /\ own' = [own EXCEPT ![pc[c].l] = OwnRelease(@, c)]
    /\ UNCHANGED <<identFunc, locals, mgrIdent, last, wrap, heap, detached, given>>

\* manager.locals.append(l): the member keeps its own identity function
AppendLocal(l) ==
    /\ locals' = Append(locals, l)
    /\ UNCHANGED <<storage, identFunc, mgrIdent, pc, last, own, wrap, heap, detached, given>>

\* LocalManager(ls, f) made by context c while the Locals are in use, in
\* its steps.  The frame holds the arguments, the place of the loop over
\* self.locals (i), and done, the history of the call: the members whose
\* slot it has set.  The new manager is the call's own until it returns;
\* then the name of the manager is bound to it.
ManagerFrame(ls, f, i, done) ==
    [op |-> "init", phase |-> "set", ls |-> ls, f |-> f, i |-> i,
     done |-> done]

\* lines 178-183: self.locals is the list of what was given
ManagerBegin(c, ls, f) ==
    /\ pc[c] = Idle
    /\ pc' = [pc EXCEPT ![c] = ManagerFrame(ls, f, 1, <<>>)]
    /\ UNCHANGED <<storage, identFunc, locals, mgrIdent, last, own, wrap, heap,
                   detached, given>>

\* the constructor that gives its function to the first member only
ManagerSetFirst(c) ==
    /\ pc[c].op = "init" /\ pc[c].f # "None" /\ pc[c].i <= Len(pc[c].ls)
    /\ identFunc' = [identFunc EXCEPT ![pc[c].ls[1]] = pc[c].f]
    /\ pc' = [pc EXCEPT ![c].i = @ + 1,
                        ![c].done = Append(@, pc[c].ls[pc[c].i])]
    /\ UNCHANGED <<storage, locals, mgrIdent, last, own, wrap, heap, detached,
                   given>>

\* lines 186-187: object.__setattr__(local, "__ident_func__", ident_func),
\* for the next member of self.locals
ManagerSet(c) ==
    /\ pc[c].op = "init" /\ pc[c].f # "None" /\ pc[c].i <= Len(pc[c].ls)
    /\ identFunc' = [identFunc EXCEPT ![pc[c].ls[pc[c].i]] = pc[c].f]
    /\ pc' = [pc EXCEPT ![c].i = @ + 1,
                        ![c].done = Append(@, pc[c].ls[pc[c].i])]
    /\ UNCHANGED <<storage, locals, mgrIdent, last, own, wrap, heap, detached,
                   given>>

\* the end of __init__ (line 189 when no function was given): the manager
\* is the new one
ManagerReturn(c) ==
    /\ pc[c].op = "init"
    /\ pc[c].f = "None" \/ pc[c].i > Len(pc[c].ls)
    /\ locals' = pc[c].ls
    /\ mgrIdent' = IF pc[c].f # "None" THEN pc[c].f ELSE "get_ident"
    /\ given' = IF pc[c].f # "None" THEN Len(pc[c].ls) ELSE 0
    /\ last' = [ctx |-> c, op |-> "init", ls |-> pc[c].ls, f |-> pc[c].f,
                done |-> pc[c].done]
    /\ pc' = [pc EXCEPT ![c] = Idle]
    /\ UNCHANGED <<storage, identFunc, own, wrap, heap, detached>>

\* the setter of LocalStack.__ident_func__: the slot of the stack's _local
SetIdentFunc(f) ==
    /\ identFunc' = [identFunc EXCEPT !["S"] = f]
    /\ last' = [ctx |-> 0, op |-> "ident_func", l |-> "S", arg |-> f]
    /\ UNCHANGED <<storage, locals, mgrIdent, pc, own, wrap, heap, detached, given>>

InitManager == InitWith({<<"A">>, <<"S">>, <<"A", "S">>})

\* what the constructors that run in steps are given as locals: the list of
\* the Local and the stack
ManagerArgs == {<<"A", "S">>}

IdentFuncs == {"get_ident", "custom"}

NextManager ==
    \/ \E c \in Ctx : SetattrCall(c, "x", Obj("a"))
    \/ \E c \in Ctx : SetattrTryStep(c)
    \/ \E c \in Ctx : SetattrExceptStep(c)
    \/ \E c \in Ctx : GetattrCall(c, "x")
    \/ \E c \in Ctx : Len(StackOf(c)) < MgrDepth /\ PushCall(c, Obj("a"))
    \/ \E c \in Ctx : PushFill(c)
    \/ \E c \in Ctx : TopCall(c)
    \/ \E c \in Ctx, l \in Locals : ReleaseCall(c, l)
    \/ \E c \in Ctx : CleanupBegin(c)
    \/ \E c \in Ctx : CleanupNext(c)
    \/ \E c \in Ctx : CleanupIdent(c)
    \/ \E c \in Ctx : CleanupPop(c)
    \/ \E l \in Locals : Len(locals) < MaxLocals /\ AppendLocal(l)

SpecManager == InitManager /\ [][NextManager]_vars

(***************************************************************************)
(* Local.__setattr__ on A as one call, where its steps are not the matter. *)
(***************************************************************************)
SetattrWhole(c, name, value) ==
    /\ pc[c] = Idle
    /\ storage' = [storage EXCEPT !["A"] = Setattr(@, Ident("A", c), name, value)]
    /\ last' = [ctx |-> c, op |-> "setattr", l |-> "A", name |-> name,
                arg |-> value, res |-> Ret(None)]
    /\ own' = [own EXCEPT !["A"] = OwnSet(@, c, name, value)]
    /\ UNCHANGED <<identFunc, locals, mgrIdent, pc, wrap, heap, detached, given>>

(***************************************************************************)
(* The calls in their steps.  A call of a context goes from one access of  *)
(* what the contexts share to the next: it calls the identity function of  *)
(* the Local, it reads or writes the table under the identity it got, it   *)
(* reads or changes a list it holds.  pc[c] is the frame of the call: its  *)
(* name and where it stands, the Local, the arguments, the identity that   *)
(* the method of the Local it is in got from the function (NoIdent outside *)
(* such a method), and the list the call holds.                            *)
(*                                                                         *)
(* A list is an object: the call holds it, not its items.  At(k) is the    *)
(* list that the table of the stack has under k, Det(i) a list that the    *)
(* table had and has no longer; detached[i] is what such a list holds, for *)
(* as long as a call holds it.                                             *)
(*                                                                         *)
(* While the identity function of a Local stays what it is, no context     *)
(* reaches an entry but its own, and nothing another context does between  *)
(* two statements of a call shows in it: there a call is taken whole       *)
(* (GetattrCall, DelattrCall, ReleaseCall, PopCall, TopCall, SetattrWhole) *)
(* unless it leaves the table, between two of its statements, as no whole  *)
(* call leaves it: the push that creates its list shows the empty          *)
(* list it has stored (PushCall, PushFill), the set that creates its entry *)
(* runs its try and its except (SetattrCall), and cleanup goes member by   *)
(* member (CleanupBegin to CleanupPop).  Where a manager is made over a    *)
(* Local in use, or the function of the stack is assigned, a call may get  *)
(* its identity from one function and reach the table after the other is   *)
(* installed, and two contexts may meet in one entry: there, and where the *)
(* claim is about every state of the table (SpecStackSteps), the calls run *)
(* in these steps, one step for each access of what the contexts share.    *)
(***************************************************************************)
NoRef == [kind |-> "none", n |-> 0]

At(k) == [kind |-> "at", n |-> k]

Det(i) == [kind |-> "det", n |-> i]

Frame(op, phase, l, name, value, ident, rv) ==
    [op |-> op, phase |-> phase, l |-> l, name |-> name, value |-> value,
     ident |-> ident, rv |-> rv]

\* the calls that run in these steps
CallOps == {"getattr", "setattr", "delattr", "release", "push", "pop", "top"}

\* context c stands at that place of that call
In(c, op, phase) == pc[c] # Idle /\ pc[c].op = op /\ pc[c].phase = phase

\* the items of a list that a call holds
RefItems(r) ==
    IF r.kind = "at" THEN storage["S"][r.n]["stack"].items ELSE detached[r.n]

\* a name for a list that leaves the table
FreshId == CHOOSE i \in Ctx : i \notin DOMAIN detached

\* the frames p once the list under k of the table of the stack has left
\* the table: the calls that hold it go on holding it
Taken(p, k) ==
    [c \in Ctx |-> IF p[c].op \in CallOps /\ p[c].rv = At(k)
                   THEN [p[c] EXCEPT !.rv = Det(FreshId)] ELSE p[c]]

\* the lists outside the table once the list under k has left the table
TakenList(k) ==
    IF \E c \in Ctx : pc[c].op \in CallOps /\ pc[c].rv = At(k)
    THEN (FreshId :> storage["S"][k]["stack"].items) @@ detached
    ELSE detached

\* the lists outside the table that a call of the frames p still holds
Held_by(p, d) ==
    [i \in {j \in DOMAIN d : \E c \in Ctx : p[c].op \in CallOps /\ p[c].rv = Det(j)}
       |-> d[i]]

\* the call of c goes to the frame f (Idle: it returns) while the entry
\* under k of Local l is replaced or removed; f holds what c holds then
Leave(c, f, l, k) ==
    IF l = "S" /\ k \in DOMAIN storage["S"]
    THEN /\ pc' = [Taken(pc, k) EXCEPT ![c] = f]
         /\ detached' = Held_by(pc', TakenList(k))
    ELSE /\ pc' = [pc EXCEPT ![c] = f]
         /\ detached' = Held_by(pc', detached)

\* the call of c returns res
Return(c, op, res) ==
    last' = [ctx |-> c, op |-> op, l |-> pc[c].l, name |-> pc[c].name,
             arg |-> pc[c].value, res |-> res]

\* Local.__getattr__, line 59: self.__ident_func__()
GetattrBegin(c, name) ==
    /\ pc[c] = Idle
    /\ pc' = [pc EXCEPT ![c] = Frame("getattr", "lookup", "A", name, None,
                                       Ident("A", c), NoRef)]
    /\ UNCHANGED <<storage, identFunc, locals, mgrIdent, last, own, wrap, heap,
                   detached, given>>

\* line 59: self.__storage__[ident][name]
GetattrLookup(c) ==
    /\ In(c, "getattr", "lookup")
    /\ Return(c, "getattr", Getattr(storage["A"], pc[c].ident, pc[c].name))
    /\ pc' = [pc EXCEPT ![c] = Idle]
    /\ UNCHANGED <<storage, identFunc, locals, mgrIdent, own, wrap, heap,
                   detached, given>>

\* Local.__setattr__, line 64: ident = self.__ident_func__()
SetattrBegin(c, name, value) ==
    /\ pc[c] = Idle
    /\ pc' = [pc EXCEPT ![c] = Frame("setattr", "try", "A", name, value,
                                       Ident("A", c), NoRef)]
    /\ UNCHANGED <<storage, identFunc, locals, mgrIdent, last, own, wrap, heap,
                   detached, given>>

\* line 67: storage[ident][name] = value
SetattrTryAt(c) ==
    /\ In(c, "setattr", "try")
    /\ LET t == SetattrTry(storage["A"], pc[c].ident, pc[c].name, pc[c].value)
       IN  IF t.exc = "KeyError"
           THEN /\ pc' = [pc EXCEPT ![c].phase = "except"]
                /\ UNCHANGED <<storage, last, given>>
           ELSE /\ storage' = [storage EXCEPT !["A"] = t.st]
                /\ Return(c, "setattr", Ret(None))
                /\ pc' = [pc EXCEPT ![c] = Idle]
    /\ UNCHANGED <<identFunc, locals, mgrIdent, own, wrap, heap, detached, given>>

\* line 69: storage[ident] = {name: value}
SetattrExceptAt(c) ==
    /\ In(c, "setattr", "except")
    /\ storage' = [storage EXCEPT !["A"] =
                     SetattrExcept(@, pc[c].ident, pc[c].name, pc[c].value)]
    /\ Return(c, "setattr", Ret(None))
    /\ pc' = [pc EXCEPT ![c] = Idle]
    /\ UNCHANGED <<identFunc, locals, mgrIdent, own, wrap, heap, detached, given>>

\* Local.__delattr__, line 73: self.__ident_func__()
DelattrBegin(c, name) ==
    /\ pc[c] = Idle
    /\ pc' = [pc EXCEPT ![c] = Frame("delattr", "delete", "A", name, None,
                                       Ident("A", c), NoRef)]
    /\ UNCHANGED <<storage, identFunc, locals, mgrIdent, last, own, wrap, heap,
                   detached, given>>

\* line 73: del self.__storage__[ident][name]
DelattrDelete(c) ==
    /\ In(c, "delattr", "delete")
    /\ LET d == Delattr(storage["A"], pc[c].ident, pc[c].name)
       IN  /\ storage' = [storage EXCEPT !["A"] = d.st]
           /\ Return(c, "delattr", d.res)
    /\ pc' = [pc EXCEPT ![c] = Idle]
    /\ UNCHANGED <<identFunc, locals, mgrIdent, own, wrap, heap, detached, given>>

\* release_local(l), line 55: self.__ident_func__()
ReleaseBegin(c, l) ==
    /\ pc[c] = Idle
    /\ pc' = [pc EXCEPT ![c] = Frame("release", "pop", l, "", None,
                                       Ident(l, c), NoRef)]
    /\ UNCHANGED <<storage, identFunc, locals, mgrIdent, last, own, wrap, heap,
                   detached, given>>

\* line 55: self.__storage__.pop(ident, None)
ReleasePop(c) ==
    /\ In(c, "release", "pop")
    /\ LET r == ReleaseLocal(storage[pc[c].l], pc[c].ident)
       IN  /\ storage' = [storage EXCEPT ![pc[c].l] = r.st]
           /\ last' = [ctx |-> c, op |-> "release", l |-> pc[c].l,
                       res |-> r.res, had |-> r.had]
    /\ Leave(c, Idle, pc[c].l, pc[c].ident)
    /\ UNCHANGED <<identFunc, locals, mgrIdent, own, wrap, heap, given>>

\* LocalStack.push, line 130, in Local.__getattr__: self.__ident_func__()
PushBegin(c, obj) ==
    /\ pc[c] = Idle
    /\ pc' = [pc EXCEPT ![c] = Frame("push", "lookup", "S", "stack", obj,
                                       Ident("S", c), NoRef)]
    /\ UNCHANGED <<storage, identFunc, locals, mgrIdent, last, own, wrap, heap,
                   detached, given>>

\* line 130: rv = getattr(self._local, "stack", None), and line 131
PushLookup(c) ==
    /\ In(c, "push", "lookup")
    /\ pc' = [pc EXCEPT ![c] =
                IF IsNone(GetStack(storage["S"], pc[c].ident))
                THEN [@ EXCEPT !.phase = "ident", !.ident = NoIdent]
                ELSE [@ EXCEPT !.phase = "append", !.ident = NoIdent,
                               !.rv = At(pc[c].ident)]]
    /\ UNCHANGED <<storage, identFunc, locals, mgrIdent, last, own, wrap, heap,
                   detached, given>>

\* line 132, in Local.__setattr__, line 64: ident = self.__ident_func__()
PushIdent(c) ==
    /\ In(c, "push", "ident")
    /\ pc' = [pc EXCEPT ![c].phase = "try", ![c].ident = Ident("S", c)]
    /\ UNCHANGED <<storage, identFunc, locals, mgrIdent, last, own, wrap, heap,
                   detached, given>>

\* line 132, in line 67: storage[ident]["stack"] = [], the new list
PushTry(c) ==
    /\ In(c, "push", "try")
    /\ LET t == SetattrTry(storage["S"], pc[c].ident, "stack", List(<<>>))
       IN  IF t.exc = "KeyError"
           THEN /\ pc' = [pc EXCEPT ![c].phase = "except"]
                /\ UNCHANGED <<storage, detached, given>>
           ELSE /\ storage' = [storage EXCEPT !["S"] = t.st]
                /\ Leave(c, [pc[c] EXCEPT !.phase = "append",
                                          !.ident = NoIdent,
                                          !.rv = At(pc[c].ident)],
                         "S", pc[c].ident)
    /\ UNCHANGED <<identFunc, locals, mgrIdent, last, own, wrap, heap, given>>

\* line 132, in line 69: storage[ident] = {"stack": []}
PushExcept(c) ==
    /\ In(c, "push", "except")
    /\ storage' = [storage EXCEPT !["S"] =
                     SetattrExcept(@, pc[c].ident, "stack", List(<<>>))]
    /\ Leave(c, [pc[c] EXCEPT !.phase = "append", !.ident = NoIdent,
                              !.rv = At(pc[c].ident)],
             "S", pc[c].ident)
    /\ UNCHANGED <<identFunc, locals, mgrIdent, last, own, wrap, heap, given>>

\* the tables and the lists outside them after a change of the list r
ListSet(r, items) ==
    [stg |-> IF r.kind = "at"
             THEN [storage EXCEPT !["S"][r.n]["stack"] = List(items)]
             ELSE storage,
     det |-> IF r.kind = "det" THEN [detached EXCEPT ![r.n] = items]
             ELSE detached]

\* line 133: rv.append(obj), and line 134
PushAppend(c) ==
    /\ In(c, "push", "append")
    /\ LET items == Append(RefItems(pc[c].rv), pc[c].value)
           w == ListSet(pc[c].rv, items)
       IN  /\ storage' = w.stg
           /\ pc' = [pc EXCEPT ![c] = Idle]
           /\ detached' = Held_by(pc', w.det)
           /\ last' = [ctx |-> c, op |-> "push", l |-> "S",
                       arg |-> pc[c].value, res |-> Ret(List(items))]
    /\ UNCHANGED <<identFunc, locals, mgrIdent, own, wrap, heap, given>>

\* LocalStack.pop, line 140, in Local.__getattr__: self.__ident_func__()
PopBegin(c) ==
    /\ pc[c] = Idle
    /\ pc' = [pc EXCEPT ![c] = Frame("pop", "lookup", "S", "stack", None,
                                       Ident("S", c), NoRef)]
    /\ UNCHANGED <<storage, identFunc, locals, mgrIdent, last, own, wrap, heap,
                   detached, given>>

\* line 140: stack = getattr(self._local, "stack", None), and lines 141-142
PopLookup(c) ==
    /\ In(c, "pop", "lookup")
    /\ IF IsNone(GetStack(storage["S"], pc[c].ident))
       THEN /\ last' = [ctx |-> c, op |-> "pop", l |-> "S", res |-> Ret(None)]
            /\ pc' = [pc EXCEPT ![c] = Idle]
       ELSE /\ pc' = [pc EXCEPT ![c] = [@ EXCEPT !.phase = "len",
                                                !.ident = NoIdent,
                                                !.rv = At(pc[c].ident)]]
            /\ UNCHANGED last
    /\ UNCHANGED <<storage, identFunc, locals, mgrIdent, own, wrap, heap,
                   detached, given>>

\* the pop that takes the last item out of the list and leaves the entry
PopLenNoRelease(c) ==
    /\ In(c, "pop", "len")
    /\ pc' = [pc EXCEPT ![c].phase = "listpop"]
    /\ UNCHANGED <<storage, identFunc, locals, mgrIdent, last, own, wrap, heap,
                   detached, given>>

\* line 143: len(stack) == 1
PopLen(c) ==
    /\ In(c, "pop", "len")
    /\ pc' = [pc EXCEPT ![c].phase = IF Len(RefItems(pc[c].rv)) = 1
                                      THEN "ident" ELSE "listpop"]
    /\ UNCHANGED <<storage, identFunc, locals, mgrIdent, last, own, wrap, heap,
                   detached, given>>

\* line 144, in line 55: self.__ident_func__()
PopIdent(c) ==
    /\ In(c, "pop", "ident")
    /\ pc' = [pc EXCEPT ![c].phase = "release", ![c].ident = Ident("S", c)]
    /\ UNCHANGED <<storage, identFunc, locals, mgrIdent, last, own, wrap, heap,
                   detached, given>>

\* line 144, in line 55: self.__storage__.pop(ident, None)
PopRelease(c) ==
    /\ In(c, "pop", "release")
    /\ storage' = [storage EXCEPT !["S"] = ReleaseLocal(@, pc[c].ident).st]
    /\ Leave(c, [Taken(pc, pc[c].ident)[c] EXCEPT !.phase = "last",
                                                  !.ident = NoIdent],
             "S", pc[c].ident)
    /\ UNCHANGED <<identFunc, locals, mgrIdent, last, own, wrap, heap, given>>

\* line 145: return stack[-1]
PopLast(c) ==
    /\ In(c, "pop", "last")
    /\ LET items == RefItems(pc[c].rv)
       IN  last' = [ctx |-> c, op |-> "pop", l |-> "S",
                    res |-> IF Len(items) = 0
                            THEN Raise("IndexError", "list index out of range")
                            ELSE Ret(items[Len(items)])]
    /\ pc' = [pc EXCEPT ![c] = Idle]
    /\ detached' = Held_by(pc', detached)
    /\ UNCHANGED <<storage, identFunc, locals, mgrIdent, own, wrap, heap, given>>

\* line 147: return stack.pop()
PopListPop(c) ==
    /\ In(c, "pop", "listpop")
    /\ LET items == RefItems(pc[c].rv)
           w == ListSet(pc[c].rv, SubSeq(items, 1, Len(items) - 1))
       IN  IF Len(items) = 0
           THEN /\ last' = [ctx |-> c, op |-> "pop", l |-> "S",
                            res |-> Raise("IndexError", "pop from empty list")]
                /\ pc' = [pc EXCEPT ![c] = Idle]
                /\ detached' = Held_by(pc', detached)
                /\ UNCHANGED storage
           ELSE /\ last' = [ctx |-> c, op |-> "pop", l |-> "S",
                            res |-> Ret(items[Len(items)])]
                /\ storage' = w.stg
                /\ pc' = [pc EXCEPT ![c] = Idle]
                /\ detached' = Held_by(pc', w.det)
    /\ UNCHANGED <<identFunc, locals, mgrIdent, own, wrap, heap, given>>

\* LocalStack.top, line 155, in Local.__getattr__: self.__ident_func__()
TopBegin(c) ==
    /\ pc[c] = Idle
    /\ pc' = [pc EXCEPT ![c] = Frame("top", "lookup", "S", "stack", None,
                                       Ident("S", c), NoRef)]
    /\ UNCHANGED <<storage, identFunc, locals, mgrIdent, last, own, wrap, heap,
                   detached, given>>

\* line 155: self._local.stack, and line 156 for its AttributeError
TopLookup(c) ==
    /\ In(c, "top", "lookup")
    /\ IF Getattr(storage["S"], pc[c].ident, "stack").exc = "AttributeError"
       THEN /\ last' = [ctx |-> c, op |-> "top", l |-> "S", res |-> Ret(None)]
            /\ pc' = [pc EXCEPT ![c] = Idle]
       ELSE /\ pc' = [pc EXCEPT ![c] = [@ EXCEPT !.phase = "last",
                                                !.ident = NoIdent,
                                                !.rv = At(pc[c].ident)]]
            /\ UNCHANGED last
    /\ UNCHANGED <<storage, identFunc, locals, mgrIdent, own, wrap, heap,
                   detached, given>>

\* line 155: [-1], and line 156 for its IndexError
TopLast(c) ==
    /\ In(c, "top", "last")
    /\ last' = [ctx |-> c, op |-> "top", l |-> "S",
                res |-> Ret(LET items == RefItems(pc[c].rv)
                            IN  IF Len(items) = 0 THEN None
                                ELSE items[Len(items)])]
    /\ pc' = [pc EXCEPT ![c] = Idle]
    /\ detached' = Held_by(pc', detached)
    /\ UNCHANGED <<storage, identFunc, locals, mgrIdent, own, wrap, heap, given>>

\* a step of the call on the Local that context c is in
LocalStep(c) ==
    \/ GetattrLookup(c)
    \/ SetattrTryAt(c) \/ SetattrExceptAt(c)
    \/ DelattrDelete(c)

\* a step of the call on the stack that context c is in
StackStep(c) ==
    \/ PushLookup(c) \/ PushIdent(c) \/ PushTry(c) \/ PushExcept(c)
    \/ PushAppend(c)
    \/ PopLookup(c) \/ PopLen(c) \/ PopIdent(c) \/ PopRelease(c)
    \/ PopLast(c) \/ PopListPop(c)
    \/ TopLookup(c) \/ TopLast(c)

\* a step of the call that context c is in
Step(c) == LocalStep(c) \/ StackStep(c) \/ ReleasePop(c)

(***************************************************************************)
(* The calls on the stack in their steps, the identity function staying    *)
(* what it is: what the table holds while a call is under way.             *)
(***************************************************************************)
NextStackSteps ==
    \/ \E c \in Ctx, v \in StackVals :
         Len(StackOf(c)) < MaxDepth /\ PushBegin(c, v)
    \/ \E c \in Ctx : PopBegin(c)
    \/ \E c \in Ctx : TopBegin(c)
    \/ \E c \in Ctx : ReleaseBegin(c, "S")
    \/ \E c \in Ctx : StackStep(c)
    \/ \E c \in Ctx : ReleasePop(c)

SpecStackSteps == Init /\ [][NextStackSteps]_vars

(***************************************************************************)
(* The calls on the Local and on the stack, in their steps, while managers *)
(* are made over them and the identity function of the stack is assigned.  *)
(* The calls of the contexts on a Local run beside each other, beside the  *)
(* constructors and beside the assignments, in every order of their steps. *)
(* The Local and the stack share nothing (a call on one reads and writes   *)
(* no slot and no entry of the other), so the size is kept down by having  *)
(* entries and running calls in MaxInUse of them at a time.                *)
(***************************************************************************)
\* the Locals that hold an entry or that a call is running on
InUse ==
    {l \in Locals :
       \/ storage[l] # Empty
       \/ \E c \in Ctx : pc[c].op \in CallOps /\ pc[c].l = l}

\* Local l is, or may come, in use
Within(l) == Cardinality(InUse \cup {l}) <= MaxInUse

NextIdent ==
    \/ \E c \in Ctx : Within("A") /\ SetattrBegin(c, "x", Obj("a"))
    \/ \E c \in Ctx : Within("A") /\ GetattrBegin(c, "x")
    \/ \E c \in Ctx : Within("A") /\ DelattrBegin(c, "x")
    \/ \E c \in Ctx : /\ Within("S")
                      /\ Len(StackOf(c)) < SharedDepth
                      /\ PushBegin(c, Obj("a"))
    \/ \E c \in Ctx : Within("S") /\ PopBegin(c)
    \/ \E c \in Ctx : Within("S") /\ TopBegin(c)
    \/ \E c \in Ctx, l \in Locals : Within(l) /\ ReleaseBegin(c, l)
    \/ \E c \in Ctx : Step(c)
    \/ \E l \in Locals : Len(locals) < MaxLocals /\ AppendLocal(l)
    \/ \E c \in Ctx, ls \in ManagerArgs, f \in {"custom", "None"} :
         ManagerBegin(c, ls, f)
    \/ \E c \in Ctx : ManagerSet(c)
    \/ \E c \in Ctx : ManagerReturn(c)
    \/ \E f \in IdentFuncs : SetIdentFunc(f)

\* at the start a manager has been made over the Local alone, with the other
\* identity function or with none
InitIdent == InitWith({<<"A">>})

SpecIdent == InitIdent /\ [][NextIdent]_vars

(***************************************************************************)
(* An operation on a proxy: every forwarded operation starts with          *)
(* self._get_current_object(); res is what that call gives.                *)
(***************************************************************************)
Proxies == {AttrProxy("x"), StackProxy, FuncProxy("x")}

ProxyCall(c, h) ==
    /\ pc[c] = Idle
    /\ last' = [ctx |-> c, op |-> "proxy", h |-> h,
                res |-> GetCurrentObject(storage, h, c)]
    /\ UNCHANGED <<storage, identFunc, locals, mgrIdent, pc, own, wrap, heap, detached, given>>

NextProxy ==
    \/ \E c \in Ctx, v \in AttrVals : SetattrWhole(c, "x", v)
    \/ \E c \in Ctx : DelattrCall(c, "x")
    \/ \E c \in Ctx, v \in StackVals :
         Len(StackOf(c)) < SharedDepth /\ PushCall(c, v)
    \/ \E c \in Ctx : PushFill(c)
    \/ \E c \in Ctx : PopCall(c)
    \/ \E c \in Ctx, l \in Locals : ReleaseCall(c, l)
    \/ \E c \in Ctx, h \in Proxies : ProxyCall(c, h)

SpecProxy == Init /\ [][NextProxy]_vars

(***************************************************************************)
(* The operations on the proxies, next to the operations that bind and     *)
(* unbind what they resolve to.                                            *)
(***************************************************************************)
ProxyOp(c, h, o) ==
    /\ pc[c] = Idle
    /\ LET f == Forward(storage, heap, h, c, o.op, o.arg)
       IN  /\ last' = [ctx |-> c, op |-> o.op, h |-> h, arg |-> o.arg,
                       res |-> f.res]
           /\ heap' = f.hp
    /\ UNCHANGED <<storage, identFunc, locals, mgrIdent, pc, own, wrap, detached, given>>

Op(op, arg) == [op |-> op, arg |-> arg]

\* the operations that do not compute with the object
HandleOps ==
    {Op("__bool__", None), Op("__repr__", None), Op("__str__", None),
     Op("__getattr__", Str("n")), Op("__getattr__", Str("q")),
     Op("__eq__", Obj("a")), Op("__call__", None), Op("__getitem__", Num(0)),
     Op("__add__", Num(1))}

\* the proxy of the stack, with the operations on the stack
NextStackHandle ==
    \/ \E c \in Ctx, v \in StackVals :
         Len(StackOf(c)) < SharedDepth /\ PushCall(c, v)
    \/ \E c \in Ctx : PushFill(c)
    \/ \E c \in Ctx : PopCall(c)
    \/ \E c \in Ctx : TopCall(c)
    \/ \E c \in Ctx : ReleaseCall(c, "S")
    \/ \E c \in Ctx, o \in HandleOps : ProxyOp(c, StackProxy, o)

SpecStackHandle == Init /\ [][NextStackHandle]_vars

\* the proxies of every kind, with the operations on the Local
NextAttrHandle ==
    \/ \E c \in Ctx, v \in AttrVals : SetattrWhole(c, "x", v)
    \/ \E c \in Ctx : GetattrCall(c, "x")
    \/ \E c \in Ctx : DelattrCall(c, "x")
    \/ \E c \in Ctx : ReleaseCall(c, "A")
    \/ \E c \in Ctx, h \in Proxies, o \in HandleOps : ProxyOp(c, h, o)

SpecAttrHandle == Init /\ [][NextAttrHandle]_vars

(***************************************************************************)
(* Every operation that reads or writes a table, and the resolution of the *)
(* proxies, on one attribute and one pushed object.                        *)
(***************************************************************************)
NextEntries ==
    \/ \E c \in Ctx : SetattrWhole(c, "x", Obj("a"))
    \/ \E c \in Ctx : GetattrCall(c, "x")
    \/ \E c \in Ctx : DelattrCall(c, "x")
    \/ \E c \in Ctx : Len(StackOf(c)) < SharedDepth /\ PushCall(c, Obj("a"))
    \/ \E c \in Ctx : PushFill(c)
    \/ \E c \in Ctx : PopCall(c)
    \/ \E c \in Ctx : TopCall(c)
    \/ \E c \in Ctx, l \in Locals : ReleaseCall(c, l)
    \/ \E c \in Ctx, h \in Proxies : ProxyCall(c, h)

SpecEntries == Init /\ [][NextEntries]_vars

(***************************************************************************)
(* The operators that compute with the resolved object: the reflected and  *)
(* the in-place addition, on the proxies over the Local.                   *)
(***************************************************************************)
ArithOps ==
    {Op("__radd__", Num(1)), Op("__radd__", None), Op("__radd__", Wild),
     Op("__iadd__", Num(1)), Op("__iadd__", None),
     Op("__setattr__", Assign("n", Num(0))), Op("__delattr__", Str("n"))}

\* the number of counter x is below the bound, or x has none
Below(x) == "n" \in DOMAIN heap[x] => heap[x]["n"].n < MaxCount

NextArith ==
    \/ \E c \in Ctx, v \in AttrVals : SetattrWhole(c, "x", v)
    \/ \E c \in Ctx : ReleaseCall(c, "A")
    \/ \E c \in Ctx, h \in Proxies, o \in ArithOps :
         /\ o.op = "__iadd__" => \A x \in Mutable : Below(x)
         /\ ProxyOp(c, h, o)

SpecArith == Init /\ [][NextArith]_vars

(***************************************************************************)
(* The Local alone, each call in one step: sets, gets and deletes of two   *)
(* names, and the release.                                                 *)
(***************************************************************************)
NextNames ==
    \/ \E c \in Ctx, n \in Names, v \in AttrVals : SetattrWhole(c, n, v)
    \/ \E c \in Ctx, n \in Names : GetattrCall(c, n)
    \/ \E c \in Ctx, n \in Names : DelattrCall(c, n)
    \/ \E c \in Ctx : ReleaseCall(c, "A")

SpecNames == Init /\ [][NextNames]_vars

(***************************************************************************)
(* LocalManager.make_middleware.  application() wraps the body that the    *)
(* application returns in ClosingIterator(body, self.cleanup).             *)
(* ClosingIterator is werkzeug.wsgi's; it is modelled from its contract:   *)
(* when the body is exhausted or the wrapper is closed, whichever is       *)
(* first, it calls its callbacks once, and then passes the close on to the *)
(* body.  events lists the calls it has made, in their order.              *)
(***************************************************************************)
\* the callbacks application() hands to ClosingIterator
NoCallbacks == <<>>

MiddlewareCallbacks == <<"cleanup">>

\* application(environ, start_response), the body having n items
Application(c, n) ==
    /\ pc[c] = Idle
    /\ wrap[c].st \in {"none", "closed"}
    /\ wrap' = [wrap EXCEPT ![c] = [st |-> "open", left |-> n, fired |-> FALSE,
                                     callbacks |-> MiddlewareCallbacks,
                                     events |-> <<>>]]
    /\ UNCHANGED <<storage, identFunc, locals, mgrIdent, pc, last, own, heap, detached, given>>

\* the callbacks of the wrapper of c run, one after the other
RECURSIVE RunCallbacks(_, _, _)
RunCallbacks(stg, cbs, c) ==
    IF cbs = <<>> THEN stg
    ELSE RunCallbacks(Cleanup(stg, c).stg, Tail(cbs), c)

RECURSIVE OwnCallbacks(_, _, _)
OwnCallbacks(o, cbs, c) ==
    IF cbs = <<>> THEN o ELSE OwnCallbacks(OwnCleanup(o, 1, c), Tail(cbs), c)

\* the first of exhaustion and close: the callbacks run, once
Fire(c) ==
    IF wrap[c].fired
    THEN UNCHANGED <<storage, own, given>>
    ELSE /\ storage' = RunCallbacks(storage, wrap[c].callbacks, c)
         /\ own' = OwnCallbacks(own, wrap[c].callbacks, c)

FiredEvents(c) == IF wrap[c].fired THEN <<>> ELSE wrap[c].callbacks

\* next(wrapper): an item of the body, or its exhaustion
WrapNext(c) ==
    /\ pc[c] = Idle
    /\ wrap[c].st \in {"open", "exhausted"}
    /\ IF wrap[c].st = "open" /\ wrap[c].left > 0
       THEN /\ wrap' = [wrap EXCEPT ![c].left = @ - 1]
            /\ last' = [ctx |-> c, op |-> "next", res |-> Ret(Obj("item"))]
            /\ UNCHANGED <<storage, own, given>>
       ELSE /\ Fire(c)
            /\ wrap' = [wrap EXCEPT ![c].fired = TRUE,
                                    ![c].st = "exhausted",
                                    ![c].events = @ \o FiredEvents(c)]
            /\ last' = [ctx |-> c, op |-> "next",
                        res |-> Raise("StopIteration", "")]
    /\ UNCHANGED <<identFunc, locals, mgrIdent, pc, heap, detached, given>>

\* wrapper.close(): the callbacks if they have not run, then body.close()
WrapClose(c) ==
    /\ pc[c] = Idle
    /\ wrap[c].st \in {"open", "exhausted", "closed"}
    /\ Fire(c)
    /\ wrap' = [wrap EXCEPT ![c].fired = TRUE,
                            ![c].st = "closed",
                            ![c].events =
                                IF wrap[c].st = "closed" THEN @
                                ELSE @ \o FiredEvents(c) \o <<"body.close">>]
    /\ last' = [ctx |-> c, op |-> "close", res |-> Ret(None)]
    /\ UNCHANGED <<identFunc, locals, mgrIdent, pc, heap, detached, given>>

NextMiddleware ==
    \/ \E c \in Ctx : Len(StackOf(c)) < SharedDepth /\ PushCall(c, Obj("a"))
    \/ \E c \in Ctx : PushFill(c)
    \/ \E c \in Ctx, n \in 0..MaxBody : Application(c, n)
    \/ \E c \in Ctx : WrapNext(c)
    \/ \E c \in Ctx : WrapClose(c)

SpecMiddleware == Init /\ [][NextMiddleware]_vars

(***************************************************************************)
(* The Local and the stack side by side: every operation that reaches a    *)
(* table, on one attribute of A and on S.                                  *)
(***************************************************************************)
NextShared ==
    \/ \E c \in Ctx : SetattrCall(c, "x", Obj("a"))
    \/ \E c \in Ctx : SetattrTryStep(c)
    \/ \E c \in Ctx : SetattrExceptStep(c)
    \/ \E c \in Ctx : GetattrCall(c, "x")
    \/ \E c \in Ctx : DelattrCall(c, "x")
    \/ \E c \in Ctx : Len(StackOf(c)) < SharedDepth /\ PushCall(c, Obj("a"))
    \/ \E c \in Ctx : PushFill(c)
    \/ \E c \in Ctx : PopCall(c)
    \/ \E c \in Ctx, l \in Locals : ReleaseCall(c, l)

SpecShared == Init /\ [][NextShared]_vars

(***************************************************************************)
(* What a context sees and what it bound.                                  *)
(***************************************************************************)
\* what a get of name by context c returns in the current state
View(c, name) == Getattr(storage["A"], Ident("A", c), name)

\* the value context c itself set last for name, by the history
OwnGet(o, c, name) ==
    IF c \in DOMAIN o /\ name \in DOMAIN o[c]
    THEN Ret(o[c][name])
    ELSE Raise("AttributeError", name)

\* C1: a get by a context returns the value that context itself set last
\* for the name, or fails with AttributeError (Unbound); never a value that
\* only another context set.
C1_Isolation ==
    /\ \A c \in Ctx, n \in Names : View(c, n) = OwnGet(own["A"], c, n)
    /\ last.op = "getattr" => last.res = OwnGet(own["A"], last.ctx, last.name)

\* a get returned a value while another context holds a different value
\* under the same name
C1_Witness ==
    /\ last.op = "getattr" /\ last.res.exc = "none"
    /\ \E c \in Ctx \ {last.ctx} :
          /\ View(c, last.name).exc = "none"
          /\ View(c, last.name) # last.res

\* C2: when the steps of the first sets of several contexts interleave,
\* every context that completed its set has its own entry holding exactly
\* what it set, and the table holds no other entry.
C2_FirstInsert ==
    /\ \A c \in DOMAIN own["A"] :
          /\ Ident("A", c) \in DOMAIN storage["A"]
          /\ storage["A"][Ident("A", c)] = own["A"][c]
          /\ \A n \in DOMAIN own["A"][c] : View(c, n) = Ret(own["A"][c][n])
    /\ Cardinality(DOMAIN storage["A"]) = Cardinality(DOMAIN own["A"])

\* one context has just created its entry, the first of the table, while
\* every other context is between its failed lookup and the creation of its
\* own entry
C2_Witness ==
    /\ last.op = "setattr"
    /\ DOMAIN own["A"] = {last.ctx}
    /\ \A c \in Ctx \ {last.ctx} :
          pc[c].op = "setattr" /\ pc[c].phase = "except"

\* what a get of name on Local l by context c returns in the current state
ViewOf(l, c, name) == Getattr(storage[l], Ident(l, c), name)

\* the attributes the operations bind: those of A, and the stack of S
Bindings == ({"A"} \X Names) \cup {<<"S", "stack">>}

\* the step is a call of context c that binds the name of l anew, unbinds
\* it, or releases the entry of c in l
Rebinds(c, l, name) ==
    \/ ReleaseCall(c, l)
    \/ /\ l = "A"
       /\ \/ pc[c].op = "setattr" /\ pc[c].name = name /\ pc'[c] = Idle
          \/ DelattrCall(c, name)
    \/ /\ l = "S"
       /\ \/ PopCall(c)
          \/ \E v \in StackVals : PushCall(c, v)
          \/ PushFill(c)

\* C3: a value a context has bound stays what that context reads until the
\* context itself sets the name again, deletes it or has its entry released
\* (by release, or by the pop that empties its stack), whatever sets,
\* deletes, releases, pushes and pops the other contexts make in between.
C3_Stable ==
    [][\A c \in Ctx, b \in Bindings :
         \/ ViewOf(b[1], c, b[2])' = ViewOf(b[1], c, b[2])
         \/ ViewOf(b[1], c, b[2]).exc # "none"
         \/ Rebinds(c, b[1], b[2])]_vars

\* another context has just popped its stack empty, after which a context
\* still reads the attribute and the stack it bound
C3_Witness ==
    /\ last.op = "pop" /\ last.res.val # None /\ StackOf(last.ctx) = <<>>
    /\ \E c \in Ctx \ {last.ctx} :
          /\ c \in DOMAIN own["A"] /\ c \in DOMAIN own["S"]
          /\ ViewOf("A", c, "x") = Ret(own["A"][c]["x"])
          /\ ViewOf("S", c, "stack") = Ret(own["S"][c]["stack"])

(***************************************************************************)
(* The stack.                                                              *)
(***************************************************************************)
\* what top returns to context c in the current state
TopNow(c) == Top(storage["S"], Ident("S", c))

\* the most recently pushed value of s that has not been popped, or None
LastOf(s) == IF Len(s) = 0 THEN None ELSE s[Len(s)]

\* C4: the stack is last-in-first-out per context: top is the most recently
\* pushed value not yet popped, pop returns that value and exposes the one
\* pushed before it (None when there is none), and a push makes its value
\* the top above the values that were there.  (Every call records its
\* caller in last, so the calls of a step are those of last'.ctx.)
C4_LIFO ==
    /\ [](\A c \in Ctx : TopNow(c) = LastOf(OwnStack(own["S"], c)))
    /\ [][\A c \in Ctx \cap {last'.ctx} :
            LET s == OwnStack(own["S"], c)
            IN  /\ \A v \in StackVals :
                     PushReturns(c, v) =>
                       /\ TopNow(c)' = v
                       /\ StackOf(c)' = Append(StackOf(c), v)
                /\ PopCall(c) =>
                     /\ last'.res = Ret(LastOf(s))
                     /\ TopNow(c)' = LastOf(SubSeq(s, 1, Len(s) - 1))
                /\ TopCall(c) => last'.res = Ret(LastOf(s))]_vars

\* three values were pushed and a pop returned the third, leaving two
C4_Witness ==
    /\ last.op = "pop" /\ last.res = Ret(Obj("a"))
    /\ Len(StackOf(last.ctx)) = 2
    /\ TopNow(last.ctx) = None

\* C5: the pop of the last element of a context's stack removes the entry
\* of that context from the backing Local: iterating the Local shows no
\* entry for it, top is None, and the entries of the other contexts are as
\* they were.
C5_PopLastReleases ==
    [][\A c \in Ctx :
         (PopCall(c) /\ Len(StackOf(c)) = 1) =>
           LET id == Ident("S", c)
           IN  /\ \A e \in Iter(storage["S"])' : e[1] # id
               /\ TopNow(c)' = None
               /\ Iter(storage["S"])' =
                    {e \in Iter(storage["S"]) : e[1] # id}]_vars

\* a pop returned the only element of a stack, and another context still
\* has its entry
C5_Witness ==
    /\ last.op = "pop" /\ last.res = Ret(Obj("a"))
    /\ Ident("S", last.ctx) \notin DOMAIN storage["S"]
    /\ \E c \in Ctx \ {last.ctx} : Len(StackOf(c)) >= 1

\* C6 as stated: in every state the sequence stored for a context is absent
\* or non-empty; no entry of the backing Local holds an empty list.
C6_NoEmptyStack ==
    \A k \in DOMAIN storage["S"] :
        /\ "stack" \in DOMAIN storage["S"][k]
        /\ Len(storage["S"][k]["stack"].items) >= 1

\* C6, amended: an entry of the backing Local holds a list, and the list is
\* empty only while the context of that entry is inside a push that has
\* stored its new list and has not yet appended to it; so no push, pop or
\* release that has returned leaves an empty list stored.
C6_EmptyOnlyInPush ==
    \A k \in DOMAIN storage["S"] :
        /\ "stack" \in DOMAIN storage["S"][k]
        /\ Len(storage["S"][k]["stack"].items) = 0 =>
              \E c \in Ctx : /\ In(c, "push", "append")
                             /\ pc[c].rv = At(k)
                             /\ k = Ident("S", c)

\* a context is inside its first push, between the store of the new list
\* and the append, and its entry holds the empty list; the other context
\* has popped its only item, which took its entry out of the table
C6_Witness ==
    /\ last.op = "pop" /\ last.res = Ret(Obj("a"))
    /\ Ident("S", last.ctx) \notin DOMAIN storage["S"]
    /\ \E c \in Ctx \ {last.ctx} :
          /\ In(c, "push", "append")
          /\ StackOf(c) = <<>>
          /\ Ident("S", c) \in DOMAIN storage["S"]

(***************************************************************************)
(* Release, and the manager.                                               *)
(***************************************************************************)
\* the entry of context c in Local l, as iteration shows it
EntryOf(l, c) == {e \in Iter(storage[l]) : e[1] = Ident(l, c)}

\* C7: a release by a context removes the whole entry of that context and
\* nothing else: the entries of the other contexts and the other Local are
\* as they were, a release without an entry changes nothing and raises
\* nothing, and a second release changes nothing more.
C7_ReleaseFrame ==
    [][\A c \in Ctx, l \in Locals :
         ReleaseCall(c, l) =>
           LET id == Ident(l, c)
           IN  /\ last'.res = Ret(None)
               /\ EntryOf(l, c)' = {}
               /\ Iter(storage[l])' = {e \in Iter(storage[l]) : e[1] # id}
               /\ \A c2 \in Ctx \ {c} : EntryOf(l, c2)' = EntryOf(l, c2)
               /\ \A m \in Locals \ {l} : storage'[m] = storage[m]
               /\ EntryOf(l, c) = {} => storage' = storage
               /\ ReleaseLocal(storage'[l], id).st = storage'[l]]_vars

\* a context released its stack of two while another context keeps its
\* stack and its attribute
C7_Witness ==
    /\ last.op = "release" /\ last.l = "S" /\ last.had
    /\ EntryOf("S", last.ctx) = {}
    /\ \E c \in Ctx \ {last.ctx} :
          /\ Len(StackOf(c)) = MgrDepth
          /\ View(c, "x").exc = "none"

\* the step is a step of the call of context c
Acting(c) ==
    IF pc[c] = Idle THEN pc'[c] # Idle
    ELSE \/ pc'[c] = Idle
         \/ pc'[c].phase # pc[c].phase
         \/ pc[c].op = "init" /\ pc'[c].i # pc[c].i

\* the keys of Local l whose entry the step changes
Touched(l) ==
    {k \in DOMAIN storage[l] \cup DOMAIN storage'[l] :
       \/ k \notin DOMAIN storage[l]
       \/ k \notin DOMAIN storage'[l]
       \/ storage'[l][k] # storage[l][k]}

\* the cleanup of context c returns in this step
CleanupReturns(c) == pc[c].op = "cleanup" /\ pc'[c] = Idle

\* what the calling context finds when its cleanup returns, for the identity
\* id(m, c) that names the context in member m: the call has released the
\* members of the list one after the other, in the order of the list, and
\* no member holds an entry under the identity
AfterCleanup(c, id(_, _)) ==
    /\ last'.res = Ret(None)
    /\ [j \in DOMAIN last'.rel |-> last'.rel[j].l] = locals
    /\ \A i \in DOMAIN locals : id(locals[i], c) \notin DOMAIN storage'[locals[i]]
    /\ "A" \in Members(locals) =>
         /\ View(c, "x")' = Raise("AttributeError", "x")
         /\ GetCurrentObject(storage, AttrProxy("x"), c)'.exc = "RuntimeError"
    /\ "S" \in Members(locals) =>
         /\ TopNow(c)' = None
         /\ GetCurrentObject(storage, StackProxy, c)'.exc = "RuntimeError"

\* a step of the cleanup of context c removes nothing but the entry of the
\* member it is at, under the identity id gives the context, and it removes
\* that entry when the member has one
CleanupStep(c, id(_, _)) ==
    /\ \A l \in Locals : Touched(l) # {} =>
          /\ pc[c].phase = "pop" /\ l = pc[c].l
          /\ l = locals[pc[c].i]
          /\ Touched(l) = {id(l, c)}
    /\ pc[c].phase = "pop" => id(pc[c].l, c) \notin DOMAIN storage'[pc[c].l]

\* the identity the manager's own identity function gives
ManagerIdentOf(l, c) == CallIdentFunc(mgrIdent, c)

\* C8 as stated: cleanup releases, for every member in the order of the
\* list, the entry under the identity that the manager's identity function
\* gives the calling context, and when it returns no member holds an entry
\* under that identity.
C8_Original ==
    [][\A c \in Ctx :
         (pc[c].op = "cleanup" /\ Acting(c)) =>
            /\ CleanupStep(c, ManagerIdentOf)
            /\ CleanupReturns(c) => AfterCleanup(c, ManagerIdentOf)]_vars

\* C8, amended: cleanup releases, member after member in the order of the
\* list, the entry under the identity that the member's own identity
\* function gives the calling context, and touches no other entry; when it
\* returns no member holds such an entry, a get, a top and a proxy of that
\* context find nothing bound, and a member without data does not stop the
\* loop: the call has gone through every member of the list.
C8_Cleanup ==
    [][\A c \in Ctx :
         (pc[c].op = "cleanup" /\ Acting(c)) =>
            /\ CleanupStep(c, Ident)
            /\ CleanupReturns(c) => AfterCleanup(c, Ident)]_vars

\* a cleanup has returned that ran over two members: the first had no entry
\* for the caller when the call came to it, the second had one, and now
\* neither has; another context still holds its data in the second
C8_Witness ==
    /\ last.op = "cleanup" /\ last.res = Ret(None)
    /\ Len(last.rel) = 2 /\ Len(locals) = 2
    /\ last.rel[1].l = locals[1] /\ ~last.rel[1].had
    /\ last.rel[2].l = locals[2] /\ last.rel[2].had
    /\ locals[1] # locals[2]
    /\ \A l \in Locals : EntryOf(l, last.ctx) = {}
    /\ \E c \in Ctx \ {last.ctx} :
          /\ EntryOf(locals[1], c) = {}
          /\ EntryOf(locals[2], c) # {}

(***************************************************************************)
(* The cleanup wrapper.                                                    *)
(***************************************************************************)
\* the wrapper of c runs its callbacks in this step: its first exhaustion
\* or close
Fires(c) ==
    /\ wrap[c].st # "none"
    /\ ~wrap[c].fired
    /\ \/ WrapClose(c)
       \/ WrapNext(c) /\ wrap[c].left = 0

\* C9: the wrapper that application() returns calls LocalManager.cleanup
\* once per body, at the first of the exhaustion of the body and the close
\* of the wrapper, never again for that body, and the close reaches the
\* body after the cleanup.
C9_CleanupOnce ==
    /\ [](\A c \in Ctx :
            /\ wrap[c].st = "open" => wrap[c].events = <<>>
            /\ wrap[c].st = "exhausted" => wrap[c].events = <<"cleanup">>
            /\ wrap[c].st = "closed" =>
                 wrap[c].events = <<"cleanup", "body.close">>)
    /\ [][\A c \in Ctx :
            /\ Fires(c) => storage' = Cleanup(storage, c).stg
            /\ ((WrapNext(c) \/ WrapClose(c)) /\ ~Fires(c)) => storage' = storage]_vars

\* a wrapper was closed after its body was exhausted, the cleanup having
\* emptied the stack of the context
C9_Witness ==
    /\ last.op = "close"
    /\ wrap[last.ctx].st = "closed" /\ wrap[last.ctx].left = 0
    /\ wrap[last.ctx].events = <<"cleanup", "body.close">>
    /\ StackOf(last.ctx) = <<>>
    /\ \E c \in Ctx \ {last.ctx} : StackOf(c) # <<>> /\ wrap[c].st = "exhausted"

(***************************************************************************)
(* The proxies.                                                            *)
(***************************************************************************)
\* a resolution r of proxy h by context c agrees with what the history says
\* c has bound at this moment.  A None on top of the stack is left to the
\* properties of the stack proxy.
Resolves(r, h, c) ==
    IF h.kind = "stack"
    THEN LET s == OwnStack(own["S"], c)
         IN  /\ s = <<>> => r = Raise("RuntimeError", "object unbound")
             /\ (s # <<>> /\ ~IsNone(LastOf(s))) => r = Ret(LastOf(s))
             /\ r.exc = "none" => (s # <<>> /\ r.val = LastOf(s))
    ELSE LET b == OwnGet(own["A"], c, h.name)
         IN  /\ b.exc = "none" => r = b
             /\ b.exc # "none" =>
                  r = IF h.kind = "attr"
                      THEN Raise("RuntimeError", "no object bound to " \o h.name)
                      ELSE Raise("AttributeError", h.name)

\* C10: a proxy caches no target: every operation on it resolves to what
\* the calling context has bound at that moment, across sets, deletes,
\* releases, pushes, pops and changes of context, also for a proxy made
\* before anything was bound.
C10_NoCache ==
    /\ \A c \in Ctx, h \in Proxies : Resolves(GetCurrentObject(storage, h, c), h, c)
    /\ last.op = "proxy" => Resolves(last.res, last.h, last.ctx)

\* a proxy made before anything was bound has resolved to the object its
\* caller bound, while the same proxy resolves to another object in another
\* context
C10_Witness ==
    /\ last.op = "proxy" /\ last.h = AttrProxy("x") /\ last.res = Ret(Obj("b"))
    /\ \E c \in Ctx \ {last.ctx} :
          /\ GetCurrentObject(storage, AttrProxy("x"), c) = Ret(Obj("a"))
          /\ GetCurrentObject(storage, StackProxy, c).exc = "none"

(***************************************************************************)
(* The failures of get and delete.                                         *)
(***************************************************************************)
\* C13: a get fails with AttributeError (Unbound) when the calling context
\* has no entry or its entry lacks the name, and returns the value
\* otherwise; a delete fails with AttributeError when the name is absent
\* for the calling context and otherwise removes that name alone, the
\* mapping of the context staying in the table even when it is left empty;
\* a failing get or delete leaves the whole table as it was and creates no
\* entry for the caller.
C13_GetDeleteFail ==
    [][\A c \in Ctx, n \in Names :
         LET id == Ident("A", c)
             bound == c \in DOMAIN own["A"] /\ n \in DOMAIN own["A"][c]
         IN  /\ GetattrCall(c, n) =>
                  /\ storage' = storage
                  /\ last'.res = IF bound THEN Ret(own["A"][c][n])
                                 ELSE Raise("AttributeError", n)
             /\ DelattrCall(c, n) =>
                  IF bound
                  THEN /\ last'.res = Ret(None)
                       /\ DOMAIN storage'["A"] = DOMAIN storage["A"]
                       /\ DOMAIN storage'["A"][id] = DOMAIN storage["A"][id] \ {n}
                       /\ \A m \in DOMAIN storage'["A"][id] :
                             storage'["A"][id][m] = storage["A"][id][m]
                       /\ \A k \in DOMAIN storage["A"] \ {id} :
                             storage'["A"][k] = storage["A"][k]
                       /\ storage'["S"] = storage["S"]
                  ELSE /\ last'.res = Raise("AttributeError", n)
                       /\ storage' = storage]_vars

\* a delete of the only name of a context left its empty mapping in the
\* table, while another context keeps both of its names
C13_Witness ==
    /\ last.op = "delattr" /\ last.res = Ret(None)
    /\ Ident("A", last.ctx) \in DOMAIN storage["A"]
    /\ storage["A"][Ident("A", last.ctx)] = Empty
    /\ \E c \in DOMAIN own["A"] \ {last.ctx} : DOMAIN own["A"][c] = Names

(***************************************************************************)
(* The stack queries that find nothing.                                    *)
(***************************************************************************)
\* C14: a pop by a context whose stack is empty (never pushed, popped to
\* the end, or released) returns None and raises nothing, a pop repeated
\* after it returns None again, and that pop and every top leave the table
\* of the backing Local as it was for every context, without an entry for
\* the caller.
C14_EmptyQueries ==
    [][\A c \in Ctx :
         LET id == Ident("S", c)
             empty == OwnStack(own["S"], c) = <<>>
         IN  /\ (PopCall(c) /\ empty) =>
                  /\ last'.res = Ret(None)
                  /\ storage' = storage
                  /\ id \notin DOMAIN storage'["S"]
                  /\ Pop(storage'["S"], id) = [res |-> Ret(None), st |-> storage'["S"]]
             /\ TopCall(c) =>
                  /\ storage' = storage
                  /\ empty => (last'.res = Ret(None) /\ id \notin DOMAIN storage'["S"])]_vars

\* a pop found nothing for its caller, who has no entry, while another
\* context holds a stack of full depth
C14_Witness ==
    /\ last.op = "pop" /\ last.res = Ret(None)
    /\ OwnStack(own["S"], last.ctx) = <<>>
    /\ Ident("S", last.ctx) \notin DOMAIN storage["S"]
    /\ \E c \in Ctx \ {last.ctx} : Len(StackOf(c)) = MaxDepth

(***************************************************************************)
(* The identity function of the manager.                                   *)
(***************************************************************************)
\* the value of name in the entry of table st under id, None where absent
Held(st, id, name) ==
    IF id \in DOMAIN st /\ name \in DOMAIN st[id] THEN st[id][name] ELSE None

\* a step of the call of context c: where it calls the identity function it
\* gets what the function that the Local holds in this state gives c; it
\* changes no entry but the one under the identity it holds and the one of
\* the list it holds, and that list it found under the identity it held; a
\* get returns what is under that identity, a set, a delete, a release and
\* the new list of a push are found, or no longer found, under it
KeyedStep(c) ==
    /\ (pc'[c] # Idle /\ pc'[c].ident # NoIdent) =>
          pc'[c].ident = IF pc[c] = Idle \/ pc[c].ident = NoIdent
                         THEN CallIdentFunc(identFunc[pc'[c].l], c)
                         ELSE pc[c].ident
    /\ pc[c] = Idle => storage' = storage
    /\ pc[c] # Idle =>
          LET f == pc[c]
              st == storage[f.l]
              st2 == storage'[f.l]
          IN  /\ \A l \in Locals \ {f.l} : storage'[l] = storage[l]
              /\ Touched(f.l) \subseteq
                   {k \in {f.ident} : f.ident # NoIdent}
                     \cup {k \in {f.rv.n} : f.rv.kind = "at"}
              /\ (pc'[c] # Idle /\ f.rv = NoRef /\ pc'[c].rv # NoRef) =>
                    pc'[c].rv = At(f.ident)
              /\ (f.op = "getattr" /\ pc'[c] = Idle) =>
                    last'.res = IF IsNone(Held(st, f.ident, f.name))
                                THEN Raise("AttributeError", f.name)
                                ELSE Ret(Held(st, f.ident, f.name))
              /\ (f.op = "setattr" /\ pc'[c] = Idle) =>
                    Held(st2, f.ident, f.name) = f.value
              /\ (f.op = "delattr" /\ pc'[c] = Idle) =>
                    /\ IsNone(Held(st2, f.ident, f.name))
                    /\ last'.res.exc = "none" <=>
                         ~IsNone(Held(st, f.ident, f.name))
              /\ (f.phase \in {"pop", "release"}) =>
                    f.ident \notin DOMAIN st2
              /\ (f.op = "push" /\ f.phase \in {"try", "except"}
                    /\ pc'[c].phase = "append") =>
                    Held(st2, f.ident, "stack") = List(<<>>)
              /\ (f.op \in {"pop", "top"} /\ f.phase = "lookup"
                    /\ pc'[c] = Idle) =>
                    /\ IsNone(Held(st, f.ident, "stack"))
                    /\ last'.res = Ret(None)

\* a step of a constructor of a manager that context c runs with the list ls
\* and the function f: it moves no data; each step of its loop puts f in
\* the slot of the next member of ls and in no other slot; when it returns
\* it has gone through ls from the first member to the last (through
\* nothing when no function was given), and the manager has ls and f
CtorStep(c) ==
    /\ storage' = storage
    /\ pc[c] = Idle =>
          /\ identFunc' = identFunc
          /\ locals' = locals /\ mgrIdent' = mgrIdent /\ given' = given
    /\ (pc[c] # Idle /\ pc'[c] # Idle) =>
          LET l == pc[c].ls[pc[c].i]
          IN  /\ pc[c].f # "None"
              /\ \A m \in Locals :
                   identFunc'[m] = IF m = l THEN pc[c].f ELSE identFunc[m]
              /\ pc'[c].done = Append(pc[c].done, l)
              /\ locals' = locals /\ mgrIdent' = mgrIdent /\ given' = given
    /\ (pc[c] # Idle /\ pc'[c] = Idle) =>
          /\ last'.done = IF pc[c].f # "None" THEN pc[c].ls ELSE <<>>
          /\ identFunc' = identFunc
          /\ locals' = pc[c].ls
          /\ mgrIdent' = IF pc[c].f # "None" THEN pc[c].f ELSE "get_ident"
          /\ given' = Len(last'.done)

\* the members that the constructor of the manager gave its function to
GivenMembers == {locals[i] : i \in 1..given}

\* C17 as stated: once a manager is constructed with an identity function f
\* over a member, every operation on the member that begins afterwards, at
\* whatever later time, is keyed by f() of its caller; and appending a
\* member to the manager's list leaves the member the identity function it
\* has: the append does not make f its function.
C17_Original ==
    [][/\ \A c \in Ctx :
            (pc[c] = Idle /\ pc'[c].op \in CallOps
               /\ pc'[c].l \in GivenMembers) =>
                 pc'[c].ident = CallIdentFunc(mgrIdent, c)
       /\ \A l \in Locals :
            (given > 0 /\ locals' = Append(locals, l)) =>
               identFunc'[l] = identFunc[l]]_vars

\* C17, amended: the constructor of a manager with an identity function f
\* puts f in the slot of every member passed to it, member after member,
\* and moves no data.  Every set, get, delete, push, pop, top and release
\* calls the function that the member holds at that moment, once for each
\* access of the table, and reads and writes the entry under the identity
\* it got and no other: a member is keyed by f() for as long as it holds
\* f.  The slot of a member changes in no other way than by the loop of a
\* constructor and by assigning LocalStack.__ident_func__; appending a
\* member to manager.locals changes no slot and no entry, so the member
\* keeps the function it has, which may be f.
C17_ManagerIdent ==
    /\ \A i \in 1..given : identFunc[locals[i]] = mgrIdent
    /\ [][/\ \A c \in Ctx :
               Acting(c) =>
                  /\ (pc[c].op \in CallOps \/ pc'[c].op \in CallOps) =>
                        KeyedStep(c)
                  /\ (pc[c].op = "init" \/ pc'[c].op = "init") =>
                        CtorStep(c)
          /\ (locals' # locals /\ pc' = pc) =>
               /\ \E l \in Locals : locals' = Append(locals, l)
               /\ identFunc' = identFunc /\ storage' = storage
               /\ mgrIdent' = mgrIdent /\ given' = given
          /\ identFunc' # identFunc =>
               \/ \E c \in Ctx : pc[c].op = "init" /\ Acting(c)
               \/ /\ last'.op = "ident_func"
                  /\ identFunc' = [identFunc EXCEPT !["S"] = last'.arg]]_vars

\* a manager was constructed with the other identity function over the
\* Local, and the stack was appended to it afterwards: the Local holds the
\* manager's function and the stack holds get_ident; a context whose two
\* identities differ has then set a value in the Local, and the entry is
\* under the identity that the manager's function gives the context and
\* not under the one that get_ident gives it
C17_Witness ==
    /\ mgrIdent = "custom" /\ locals = <<"A", "S">> /\ given = 1
    /\ identFunc["A"] = "custom" /\ identFunc["S"] = "get_ident"
    /\ last.op = "setattr" /\ last.ctx \in Ctx
    /\ CustomIdent(last.ctx) # GetIdent(last.ctx)
    /\ DOMAIN storage["A"] = {CustomIdent(last.ctx)}
    /\ storage["A"][CustomIdent(last.ctx)]["x"] = Obj("a")
    /\ \A c \in Ctx : pc[c] = Idle

(***************************************************************************)
(* The proxy of the stack.                                                 *)
(***************************************************************************)
\* what operation o on the proxy h gives context c in the current state
Outcome(h, c, o) == Forward(storage, heap, h, c, o.op, o.arg).res

\* the last step was operation op on proxy h
LastWas(h, op) == last.op = op /\ last.h = h

\* C11: on a proxy made from a LocalStack, whenever the stack of the calling
\* context is empty (never pushed, popped to the end, or released), bool()
\* returns False, repr() returns the unbound marker and raises nothing, and
\* attribute access raises RuntimeError("object unbound").
C11_EmptyStackProxy ==
    /\ \A c \in Ctx :
          OwnStack(own["S"], c) = <<>> =>
            /\ Outcome(StackProxy, c, Op("__bool__", None)) = Ret(Bool(FALSE))
            /\ Outcome(StackProxy, c, Op("__repr__", None)) =
                 Ret(Str("<LocalProxy unbound>"))
            /\ \A n \in {"n", "q"} :
                 Outcome(StackProxy, c, Op("__getattr__", Str(n))) =
                   Raise("RuntimeError", "object unbound")
    /\ (last.op \in {"__bool__", "__repr__", "__getattr__"}
          /\ OwnStack(own["S"], last.ctx) = <<>>) =>
         last.res = CASE last.op = "__bool__" -> Ret(Bool(FALSE))
                      [] last.op = "__repr__" -> Ret(Str("<LocalProxy unbound>"))
                      [] last.op = "__getattr__" ->
                           Raise("RuntimeError", "object unbound")

\* bool() of the proxy returned False to a context whose stack is empty,
\* while the same proxy is true for another context, whose stack holds an
\* object
C11_Witness ==
    /\ LastWas(StackProxy, "__bool__") /\ last.res = Ret(Bool(FALSE))
    /\ OwnStack(own["S"], last.ctx) = <<>>
    /\ \E c \in Ctx \ {last.ctx} :
          /\ OwnStack(own["S"], c) # <<>>
          /\ Outcome(StackProxy, c, Op("__bool__", None)) = Ret(Bool(TRUE))

\* C20: the proxy of a LocalStack resolves, to the top element, in every
\* state where the stack of the calling context holds at least one element,
\* whatever was pushed, and fails with "object unbound" only where that
\* stack holds no element.
C20_ResolvesWhenPushed ==
    \A c \in Ctx :
        LET s == OwnStack(own["S"], c)
            r == GetCurrentObject(storage, StackProxy, c)
        IN  /\ s # <<>> => r = Ret(LastOf(s))
            /\ r = Raise("RuntimeError", "object unbound") => s = <<>>

(***************************************************************************)
(* The proxies of every kind, unbound.                                     *)
(***************************************************************************)
\* context c has bound nothing that proxy h resolves to
Unbound(h, c) ==
    IF h.kind = "stack" THEN OwnStack(own["S"], c) = <<>>
    ELSE OwnGet(own["A"], c, h.name).exc # "none"

\* the failures that say nothing is bound: the RuntimeError of the proxy and
\* the AttributeError of the Local
UnboundFailures == {"RuntimeError", "AttributeError"}

\* C12: for a proxy of either style (made from a Local and a name, or from a
\* resolver, also one that reads an attribute of a Local or the top of a
\* stack), when nothing is bound for the calling context bool() gives False
\* and repr() the unbound marker, every other forwarded operation lets the
\* failure through to the caller, and no operation changes a table.
C12_UnboundPolicy ==
    /\ []((last.op \in {o.op : o \in HandleOps} /\ Unbound(last.h, last.ctx)) =>
            CASE last.op = "__bool__" -> last.res = Ret(Bool(FALSE))
              [] last.op = "__repr__" ->
                   last.res = Ret(Str("<LocalProxy unbound>"))
              [] OTHER -> last.res.exc \in UnboundFailures)
    /\ [][\A c \in Ctx, h \in Proxies, o \in HandleOps :
            ProxyOp(c, h, o) => storage' = storage]_vars

\* C18: a proxy made from a Local and a name resolves by reading that
\* attribute for the calling context; where the attribute is not bound, the
\* AttributeError of the Local becomes RuntimeError("no object bound to
\* <name>"), so that an unbound proxy is told from a bound object that lacks
\* the attribute asked for, which fails with the AttributeError of the
\* object itself.
C18_AttrProxyUnbound ==
    /\ \A c \in Ctx :
          LET b == OwnGet(own["A"], c, "x")
              r == GetCurrentObject(storage, AttrProxy("x"), c)
              unbound == Raise("RuntimeError", "no object bound to x")
          IN  IF b.exc = "none"
              THEN /\ r = b
                   /\ Outcome(AttrProxy("x"), c, Op("__getattr__", Str("q"))) =
                        Raise("AttributeError", "object has no attribute q")
              ELSE /\ b = Raise("AttributeError", "x")
                   /\ r = unbound
                   /\ \A n \in {"n", "q"} :
                        Outcome(AttrProxy("x"), c, Op("__getattr__", Str(n))) = unbound
    /\ LastWas(AttrProxy("x"), "__getattr__") =>
         /\ last.res.exc = "RuntimeError" <=> Unbound(last.h, last.ctx)
         /\ last.res.exc = "AttributeError" =>
              /\ ~Unbound(last.h, last.ctx)
              /\ ObjGetattr(heap, own["A"][last.ctx]["x"], last.arg.s) = last.res

\* attribute access through the proxy failed with the AttributeError of the
\* bound object for one context, while the same access fails with the
\* RuntimeError of the proxy for another context, which has bound nothing
C18_Witness ==
    /\ LastWas(AttrProxy("x"), "__getattr__")
    /\ last.res = Raise("AttributeError", "object has no attribute q")
    /\ \E c \in Ctx \ {last.ctx} :
          /\ Unbound(AttrProxy("x"), c)
          /\ Outcome(AttrProxy("x"), c, Op("__getattr__", Str("q"))) =
               Raise("RuntimeError", "no object bound to x")

(***************************************************************************)
(* The entries of the tables.                                              *)
(***************************************************************************)
\* the contexts that have an entry in the table of Local l
Entered(l) == {c \in Ctx : Ident(l, c) \in DOMAIN storage[l]}

\* C16: a context has an entry in the table of a Local exactly when it has
\* made a set (for the stack, a push) since its entry was last released, by
\* release or by the pop of its last element: a get, a failing delete, a
\* top, a pop on an empty stack and the resolution of a proxy create no
\* entry, and the delete of the last name leaves the empty entry in place.
C16_EntryIffBound ==
    /\ [](\A l \in Locals :
            /\ Entered(l) = DOMAIN own[l]
            /\ Cardinality(DOMAIN storage[l]) = Cardinality(Entered(l)))
    /\ [][\A c \in Ctx :
            /\ (\/ GetattrCall(c, "x")
                \/ TopCall(c)
                \/ \E h \in Proxies : ProxyCall(c, h)
                \/ DelattrCall(c, "x") /\ last'.res.exc # "none"
                \/ PopCall(c) /\ c \notin Entered("S"))
                 => storage' = storage
            /\ (DelattrCall(c, "x") /\ last'.res.exc = "none") =>
                 /\ Entered("A")' = Entered("A")
                 /\ storage'["A"][Ident("A", c)] = Empty
            /\ SetattrWhole(c, "x", Obj("a")) =>
                 Entered("A")' = Entered("A") \cup {c}
            /\ PushCall(c, Obj("a")) => Entered("S")' = Entered("S") \cup {c}
            /\ \A l \in Locals :
                 ReleaseCall(c, l) => Entered(l)' = Entered(l) \ {c}]_vars

\* a get failed for a context that keeps the empty entry its delete left,
\* while another context has no entry in either table
C16_Witness ==
    /\ last.op = "getattr" /\ last.res = Raise("AttributeError", "x")
    /\ last.ctx \in Entered("A")
    /\ storage["A"][Ident("A", last.ctx)] = Empty
    /\ \E c \in Ctx \ {last.ctx} : \A l \in Locals : c \notin Entered(l)

(***************************************************************************)
(* The in-place and the reflected operators.                               *)
(***************************************************************************)
\* C15: an in-place operator applied through a proxy changes the object
\* that is bound for the calling context, returns the proxy itself and not
\* the object or a new value, and binds nothing anew: afterwards the proxy
\* resolves to the same, now changed, object, and every table refers to the
\* objects it referred to before.  Where nothing is bound, or the object
\* has no such operator or fails in it, the failure comes through and
\* nothing changes.
C15_InPlace ==
    [][\A c \in Ctx, h \in Proxies :
         ProxyOp(c, h, Op("__iadd__", Num(1))) =>
           LET b == IF h.kind = "stack" THEN Raise("RuntimeError", "object unbound")
                    ELSE OwnGet(own["A"], c, h.name)
           IN  /\ storage' = storage
               /\ own' = own
               /\ IF b.exc = "none" /\ IsCounter(b.val)
                     /\ "n" \in DOMAIN heap[b.val.id]
                  THEN /\ last'.res = Ret(Handle(h))
                       /\ heap' = [heap EXCEPT ![b.val.id] =
                                     "n" :> Num(heap[b.val.id]["n"].n + 1)]
                       /\ GetCurrentObject(storage', h, c) = b
                       /\ Outcome(h, c, Op("__radd__", Num(0)))' =
                            Ret(Num(heap[b.val.id]["n"].n + 1))
                  ELSE /\ heap' = heap
                       /\ last'.res.exc # "none"]_vars

\* two in-place additions through a proxy have brought the counter to two;
\* the proxy was returned, and another context, which has bound the same
\* counter, sees it changed as well
C15_Witness ==
    /\ LastWas(AttrProxy("x"), "__iadd__")
    /\ last.res = Ret(Handle(AttrProxy("x")))
    /\ heap["a"] = "n" :> Num(MaxCount)
    /\ OwnGet(own["A"], last.ctx, "x") = Ret(Obj("a"))
    /\ \E c \in Ctx \ {last.ctx} :
          /\ GetCurrentObject(storage, FuncProxy("x"), c) = Ret(Obj("a"))
          /\ Outcome(FuncProxy("x"), c, Op("__radd__", Num(0))) = Ret(Num(MaxCount))

\* C19: other + proxy resolves the object once and returns what the
\* __radd__ of the object gives for the other operand, where the object has
\* one and it does not return NotImplemented; else what operator.add(other,
\* object) gives; where that declines too, its TypeError comes through.
C19_Reflected ==
    (last.op = "__radd__" /\ ~Unbound(last.h, last.ctx)) =>
      LET co == own["A"][last.ctx][last.h.name]
          other == last.arg
          own_r == IF HasReflected(co) THEN ReflectedAdd(heap, co, other)
                   ELSE Ret(NotImplemented)
          plain == LeftAdd(heap, other, co)
          declined == Ret(NotImplemented)
      IN  /\ own_r # declined => last.res = own_r
          /\ (own_r = declined /\ plain # declined) => last.res = plain
          /\ (own_r = declined /\ plain = declined) =>
               last.res = Raise("TypeError", "unsupported operand type(s) for +")
          /\ last.res =
               CASE co = Obj("a") /\ other.t = "int" ->
                      IF "n" \in DOMAIN heap["a"]
                      THEN Ret(Num(other.n + heap["a"]["n"].n))
                      ELSE Raise("AttributeError", "object has no attribute n")
                 [] co = Obj("a") /\ other = None ->
                      Raise("TypeError", "unsupported operand type(s) for +")
                 [] co = Obj("b") /\ other.t \in {"int", "None"} ->
                      Raise("TypeError", "unsupported operand type(s) for +")
                 [] other = Wild -> Ret(Str("wild"))

\* the __radd__ of the counter declined the other operand and the proxy
\* returned what the __add__ of that operand gave
C19_Witness ==
    /\ LastWas(AttrProxy("x"), "__radd__") /\ last.arg = Wild
    /\ OwnGet(own["A"], last.ctx, "x") = Ret(Obj("a"))
    /\ last.res = Ret(Str("wild"))
    /\ \E c \in Ctx \ {last.ctx} :
          Outcome(AttrProxy("x"), c, Op("__radd__", Num(1))).exc = "TypeError"

====
